---- MODULE Spec2Model ----
(***************************************************************************)
(* Verification model of the batched Kronecker-product apply of asgard:    *)
(* the batch container (batch<P>, batched_gemm, batched_gemv), the         *)
(* kronmult batcher (allocate_batches, kronmult_to_batch_sets,             *)
(* build_batches), the element table and the chunker.                      *)
(*                                                                         *)
(* A pointer is modelled as a record [buf, off]: the buffer it points into *)
(* and the element offset inside that buffer.  An assert() of the source   *)
(* that fails aborts the process: the variable "aborted" then holds the    *)
(* text of the failed assertion and no further operation runs.             *)
(***************************************************************************)
EXTENDS Integers, Sequences, FiniteSets, TLC

VARIABLES
  ops,         \* batch container: the three operand batches "a", "b", "c"
  last,        \* batch container: the last call made and what it returned
  dispatched,  \* batch container: the blas calls issued by the last call
  aborted,     \* "" or the text of the assertion that failed
  grid,        \* element table: [level, num_dims, type] it was built for
  table,       \* element table: inverse table, linear index -> coordinates
  fwd,         \* element table: forward hash map, key -> linear index
  lookup,      \* element table: the last lookup and its result
  connect,     \* chunker: per row element, its range of connected elements
  budget,      \* chunker: [couplings, inputs] one chunk may hold
  chunks,      \* chunker: the chunks completed so far
  cur,         \* chunker: the chunk being filled
  cursor,      \* chunker: the next coupling [row, col] to place, or done
  pde,         \* batcher: [num_dims, num_terms, degree, level] of the PDE
  chunk,       \* batcher: the element chunk build_batches is called with
  workspace,   \* batcher: the sizes of the rank workspace buffers
  batches,     \* batcher: per dimension, the operand set <<a, b, c>>
  pc,          \* batcher: "begin", "loop" or "done"
  kcalls,      \* batcher: the kronmult_to_batch_sets calls made so far
  choice,      \* PDE factory: the PDE_opts value make_PDE is called with
  made,        \* PDE factory: the descriptor make_PDE returned
  out,         \* PDE factory: what was written to std::cout
  status,      \* PDE factory: "running" or the exit status of the process
  mat,         \* tensors: the fk::matrix, [nrows_, ncols_, data_]
  vec,         \* tensors: the fk::vector, its elements
  source,      \* tensors: the std::vector last assigned to the matrix
  cout,        \* tensors: std::cout, [rdbuf, state]
  ofile,       \* tensors: the file of the last dump, [is_open, text]
  terminal,    \* tensors: what the process wrote to its terminal
  quad,        \* quadrature: the last legendre call and its result
  cmp          \* comparison: the two tensors compared and the result

batchVars == <<ops, last, dispatched>>
tableVars == <<grid, table, fwd, lookup>>
chunkVars == <<connect, budget, chunks, cur, cursor>>
kronVars == <<pde, chunk, workspace, batches, pc, kcalls>>
pdeVars == <<choice, made, out, status>>
tensorVars == <<mat, vec, source, cout, ofile, terminal>>
quadVars == <<quad>>
compareVars == <<cmp>>
vars == <<ops, last, dispatched, aborted, grid, table, fwd, lookup,
          connect, budget, chunks, cur, cursor,
          pde, chunk, workspace, batches, pc, kcalls,
          choice, made, out, status,
          mat, vec, source, cout, ofile, terminal, quad, cmp>>

\* ------------------------------------------------------------------------
\* bounds
\* ------------------------------------------------------------------------
\* slots of a batch of the container model
MaxEntries == 2
\* levels of the element tables enumerated
MaxLevel == 2
\* dimensions of the element tables enumerated
MaxTableDims == 2
\* row elements handed to the chunker
MaxElems == 3
\* couplings one chunk may hold
MaxCap == 3
\* dimensions of the PDEs batched
MaxDims == 3
\* degree of the PDEs batched
MaxDegree == 2
\* terms of the PDEs batched
MaxTerms == 2
\* level of the PDEs batched
MaxKronLevel == 2
\* chunks of a chunk list handed to build_batches
MaxChunks == 3
\* level make_PDE is called with (-1 asks for the default of the PDE)
MaxPdeLevel == 2
\* degree make_PDE is called with (-1 asks for the default of the PDE)
MaxPdeDegree == 2
\* rows of the matrices, and elements of the vectors, of the tensor model
MaxRows == 2
\* columns of the matrices of the tensor model
MaxCols == 2
\* first elements of the std::vector values assigned to a matrix
MaxFill == 2
\* domain points of legendre, in halves, on either side of 0
MaxPoint == 3
\* length of the domain vector of legendre
MaxDomain == 3
\* degree legendre is called with
MaxLegendreDegree == 3
\* elements of the tensors compared (vector length, matrix rows * columns)
MaxCmpLen == 2
\* magnitude of the elements of the tensors compared, in tolerances
MaxCmpValue == 2

\* ------------------------------------------------------------------------
\* pointers and views
\* ------------------------------------------------------------------------
\* id tells the coefficient matrices apart: <<term, dimension>>, and is
\* empty for every other buffer
nullptr == [buf |-> "nullptr", id |-> <<>>, off |-> 0]

Ptr(buf, off) == [buf |-> buf, id |-> <<>>, off |-> off]

\* a matrix view: shape, leading dimension and the pointer a.data() yields
View(nrows, ncols, stride, data) ==
  [nrows |-> nrows, ncols |-> ncols, stride |-> stride, data |-> data]

OK == "ok"

\* ------------------------------------------------------------------------
\* batch<P>
\* ------------------------------------------------------------------------
\* first failing assertion of the constructor, or OK
batch_check(num_entries, nrows, ncols, stride) ==
  IF ~(num_entries > 0) THEN "assert(num_entries > 0)"
  ELSE IF ~(nrows > 0) THEN "assert(nrows > 0)"
  ELSE IF ~(ncols > 0) THEN "assert(ncols > 0)"
  ELSE IF ~(stride > 0) THEN "assert(stride > 0)"
  ELSE OK

\* the constructed batch: every slot null
batch(num_entries, nrows, ncols, stride, do_trans) ==
  [num_entries |-> num_entries, nrows |-> nrows, ncols |-> ncols,
   stride |-> stride, do_trans |-> do_trans,
   batch_ |-> [p \in 0..(num_entries - 1) |-> nullptr]]

Positions(b) == 0..(b.num_entries - 1)

\* faulty variant: the "nothing already assigned" assertion is missing
assign_entry_check_overwrite(b, a, position) ==
  IF ~(a.nrows = b.nrows) THEN "assert(a.nrows() == nrows())"
  ELSE IF ~(a.ncols = b.ncols) THEN "assert(a.ncols() == ncols())"
  ELSE IF b.stride # 1 /\ ~(a.stride = b.stride)
    THEN "assert(a.stride() == get_stride())"
  ELSE IF ~(position >= 0) THEN "assert(position >= 0)"
  ELSE IF ~(position < b.num_entries) THEN "assert(position < num_entries())"
  ELSE OK

\* first failing assertion of assign_entry, in source order, or OK
assign_entry_check(b, a, position) ==
  IF ~(a.nrows = b.nrows) THEN "assert(a.nrows() == nrows())"
  ELSE IF ~(a.ncols = b.ncols) THEN "assert(a.ncols() == ncols())"
  ELSE IF b.stride # 1 /\ ~(a.stride = b.stride)
    THEN "assert(a.stride() == get_stride())"
  ELSE IF ~(position >= 0) THEN "assert(position >= 0)"
  ELSE IF ~(position < b.num_entries) THEN "assert(position < num_entries())"
  ELSE IF ~(b.batch_[position] = nullptr) THEN "assert(!batch_[position])"
  ELSE OK

\* batch_[position] = a.data()
assign_entry(b, a, position) ==
  [b EXCEPT !.batch_[position] = a.data]

\* faulty variant: clear_entry reports the state of the slot after clearing it
clear_entry_ret_after(b, position) ==
  [b EXCEPT !.batch_[position] = nullptr].batch_[position] # nullptr

\* value returned by clear_entry: the previous pointer converted to bool
clear_entry_ret(b, position) == b.batch_[position] # nullptr

clear_entry(b, position) ==
  [b EXCEPT !.batch_[position] = nullptr]

\* faulty variant: is_filled only inspects the first slot
is_filled_first(b) == b.batch_[0] # nullptr

is_filled(b) == \A p \in Positions(b) : b.batch_[p] # nullptr

clear_all(b) ==
  [b EXCEPT !.batch_ = [p \in Positions(b) |-> nullptr]]

\* operator(): the pointer at a position
at(b, position) == b.batch_[position]

\* ------------------------------------------------------------------------
\* batched_gemm / batched_gemv
\* ------------------------------------------------------------------------
\* rows and columns of op(x): after the optional transpose
rows_op(x) == IF x.do_trans THEN x.ncols ELSE x.nrows
cols_op(x) == IF x.do_trans THEN x.nrows ELSE x.ncols

\* faulty variant: batched_gemm first asserts that its operands are filled
batched_gemm_check_filled(a, b, c) ==
  IF ~(is_filled(a) /\ is_filled(b) /\ is_filled(c))
    THEN "assert(a.is_filled() && b.is_filled() && c.is_filled())"
  ELSE IF ~(a.num_entries = b.num_entries)
    THEN "assert(a.num_entries() == b.num_entries())"
  ELSE IF ~(b.num_entries = c.num_entries)
    THEN "assert(b.num_entries() == c.num_entries())"
  ELSE IF c.do_trans THEN "assert(!c.get_trans())"
  ELSE IF ~(cols_op(a) = rows_op(b)) THEN "assert(cols_a == rows_b)"
  ELSE IF ~(c.nrows = rows_op(a)) THEN "assert(c.nrows() == rows_a)"
  ELSE IF ~(c.ncols = cols_op(b)) THEN "assert(c.ncols() == cols_b)"
  ELSE OK

\* first failing assertion of batched_gemm, in source order, or OK
batched_gemm_check(a, b, c) ==
  IF ~(a.num_entries = b.num_entries)
    THEN "assert(a.num_entries() == b.num_entries())"
  ELSE IF ~(b.num_entries = c.num_entries)
    THEN "assert(b.num_entries() == c.num_entries())"
  ELSE IF c.do_trans THEN "assert(!c.get_trans())"
  ELSE IF ~(cols_op(a) = rows_op(b)) THEN "assert(cols_a == rows_b)"
  ELSE IF ~(c.nrows = rows_op(a)) THEN "assert(c.nrows() == rows_a)"
  ELSE IF ~(c.ncols = cols_op(b)) THEN "assert(c.ncols() == cols_b)"
  ELSE OK

\* first failing assertion of batched_gemv, in source order, or OK
batched_gemv_check(a, b, c) ==
  IF ~(a.num_entries = b.num_entries)
    THEN "assert(a.num_entries() == b.num_entries())"
  ELSE IF ~(b.num_entries = c.num_entries)
    THEN "assert(b.num_entries() == c.num_entries())"
  ELSE IF ~(~b.do_trans /\ ~c.do_trans)
    THEN "assert(!b.get_trans() && !c.get_trans())"
  ELSE IF ~(cols_op(a) = b.nrows) THEN "assert(cols_a == rows_b)"
  ELSE IF ~(b.ncols = 1) THEN "assert(b.ncols() == 1)"
  ELSE IF ~(c.ncols = 1) THEN "assert(c.ncols() == 1)"
  ELSE OK

\* faulty variant: the loop condition forgets the output operand
gemm_issues_no_c(a, b, c, i) ==
  at(a, i) # nullptr /\ at(b, i) # nullptr

\* the loop's condition "if (a(i) && b(i) && c(i))" of batched_gemm
gemm_issues(a, b, c, i) ==
  at(a, i) # nullptr /\ at(b, i) # nullptr /\ at(c, i) # nullptr

\* the loop's condition "if (a(i) && b(i) && c(i))" of batched_gemv
gemv_issues(a, b, c, i) ==
  at(a, i) # nullptr /\ at(b, i) # nullptr /\ at(c, i) # nullptr

BlasCall(fn, a, b, c, i) ==
  [fn |-> fn, i |-> i, a |-> at(a, i), b |-> at(b, i), c |-> at(c, i)]

\* indices 0, 1, ..., n-1 in loop order
LoopIndices(n) == [x \in 1..n |-> x - 1]

\* the lib_dispatch::gemm calls of one batched_gemm, in loop order
gemm_calls(a, b, c) ==
  LET idx == SelectSeq(LoopIndices(a.num_entries),
                       LAMBDA i : gemm_issues(a, b, c, i))
  IN [x \in 1..Len(idx) |-> BlasCall("gemm", a, b, c, idx[x])]

\* the lib_dispatch::gemv calls of one batched_gemv, in loop order
gemv_calls(a, b, c) ==
  LET idx == SelectSeq(LoopIndices(a.num_entries),
                       LAMBDA i : gemv_issues(a, b, c, i))
  IN [x \in 1..Len(idx) |-> BlasCall("gemv", a, b, c, idx[x])]

\* ------------------------------------------------------------------------
\* the batch container as a state machine
\* ------------------------------------------------------------------------
Names == {"a", "b", "c"}
VOID == "void"

\* a returned bool, as the caller sees it
Returned(x) == IF x THEN "true" ELSE "false"

Call(fn, value) == [fn |-> fn, value |-> value]

Shape(num_entries, nrows, ncols, stride, do_trans) ==
  [num_entries |-> num_entries, nrows |-> nrows, ncols |-> ncols,
   stride |-> stride, do_trans |-> do_trans]

\* the operand sets the three batches are constructed with
OperandShapes ==
  LET N == MaxEntries IN
  { \* gemm and gemv both well-formed
    [a |-> Shape(N, 2, 2, 2, FALSE), b |-> Shape(N, 2, 1, 2, FALSE),
     c |-> Shape(N, 2, 1, 2, FALSE)],
    \* transposed a and b: gemm well-formed, gemv not
    [a |-> Shape(N, 2, 1, 2, TRUE), b |-> Shape(N, 2, 2, 2, TRUE),
     c |-> Shape(N, 1, 2, 1, FALSE)],
    \* cardinality mismatch
    [a |-> Shape(2, 2, 2, 2, FALSE), b |-> Shape(2, 2, 1, 2, FALSE),
     c |-> Shape(1, 2, 1, 2, FALSE)],
    \* transposed output
    [a |-> Shape(1, 2, 2, 2, FALSE), b |-> Shape(1, 2, 2, 2, FALSE),
     c |-> Shape(1, 2, 2, 2, TRUE)],
    \* inner dimensions differ
    [a |-> Shape(1, 2, 1, 2, FALSE), b |-> Shape(1, 2, 1, 2, FALSE),
     c |-> Shape(1, 2, 1, 2, FALSE)],
    \* output shape differs
    [a |-> Shape(1, 2, 2, 2, FALSE), b |-> Shape(1, 2, 1, 2, FALSE),
     c |-> Shape(1, 1, 1, 1, FALSE)],
    \* a batch constructed without entries
    [a |-> Shape(1, 2, 2, 2, FALSE), b |-> Shape(1, 2, 1, 2, FALSE),
     c |-> Shape(0, 2, 1, 2, FALSE)] }

\* the views handed to assign_entry: two 2x2 windows at different addresses,
\* a column, a row, and a window with a foreign leading dimension
InputViews ==
  { View(2, 2, 2, Ptr("m", 0)), View(2, 2, 2, Ptr("m", 4)),
    View(2, 1, 2, Ptr("m", 0)), View(1, 2, 1, Ptr("m", 0)),
    View(2, 2, 3, Ptr("m", 0)) }

InputPositions == (-1)..MaxEntries

FirstFailure(seq) ==
  LET bad == SelectSeq(seq, LAMBDA m : m # OK)
  IN IF bad = <<>> THEN "" ELSE bad[1]

BatchInit ==
  \E s \in OperandShapes :
    /\ ops = [n \in Names |->
               batch(s[n].num_entries, s[n].nrows, s[n].ncols, s[n].stride,
                     s[n].do_trans)]
    /\ aborted =
         FirstFailure([x \in 1..3 |->
           LET n == <<"a", "b", "c">>[x]
           IN batch_check(s[n].num_entries, s[n].nrows, s[n].ncols,
                          s[n].stride)])
    /\ last = Call("batch", VOID)
    /\ dispatched = <<>>

AssignEntry(n, a, position) ==
  /\ aborted = ""
  /\ LET chk == assign_entry_check(ops[n], a, position)
     IN IF chk = OK
        THEN /\ ops' = [ops EXCEPT ![n] = assign_entry(ops[n], a, position)]
             /\ aborted' = ""
        ELSE /\ ops' = ops
             /\ aborted' = chk
  /\ last' = Call("assign_entry", VOID)
  /\ dispatched' = <<>>

\* clear_entry indexes batch_ unchecked: only positions inside the batch
\* are defined behaviour, and only those are called here
ClearEntry(n, position) ==
  /\ aborted = ""
  /\ position \in Positions(ops[n])
  /\ last' = Call("clear_entry", Returned(clear_entry_ret(ops[n], position)))
  /\ ops' = [ops EXCEPT ![n] = clear_entry(ops[n], position)]
  /\ dispatched' = <<>>
  /\ UNCHANGED aborted

ClearAll(n) ==
  /\ aborted = ""
  /\ ops' = [ops EXCEPT ![n] = clear_all(ops[n])]
  /\ last' = Call("clear_all", VOID)
  /\ dispatched' = <<>>
  /\ UNCHANGED aborted

IsFilled(n) ==
  /\ aborted = ""
  /\ last' = Call("is_filled", Returned(is_filled(ops[n])))
  /\ dispatched' = <<>>
  /\ UNCHANGED <<ops, aborted>>

BatchedGemm ==
  /\ aborted = ""
  /\ LET chk == batched_gemm_check(ops.a, ops.b, ops.c)
     IN IF chk = OK
        THEN /\ dispatched' = gemm_calls(ops.a, ops.b, ops.c)
             /\ aborted' = ""
        ELSE /\ dispatched' = <<>>
             /\ aborted' = chk
  /\ last' = Call("batched_gemm", VOID)
  /\ UNCHANGED ops

BatchedGemv ==
  /\ aborted = ""
  /\ LET chk == batched_gemv_check(ops.a, ops.b, ops.c)
     IN IF chk = OK
        THEN /\ dispatched' = gemv_calls(ops.a, ops.b, ops.c)
             /\ aborted' = ""
        ELSE /\ dispatched' = <<>>
             /\ aborted' = chk
  /\ last' = Call("batched_gemv", VOID)
  /\ UNCHANGED ops

\* ------------------------------------------------------------------------
\* properties of the batch container
\* ------------------------------------------------------------------------
Running == aborted = ""

AnyNull(b) == \E p \in Positions(b) : at(b, p) = nullptr

\* C1: assign_entry(view, p) is accepted only when slot p is null.  In every
\* reachable state the call is rejected by an assertion for every view and
\* every assigned slot; in every step a slot that holds a pointer keeps it
\* or becomes null, never receiving a second pointer without a clear in
\* between; and every assign_entry that returns has written one pointer
\* into a slot that was null and changed nothing else.
C1_AssignOnlyWhenNull ==
  /\ [](Running =>
         \A n \in Names, a \in InputViews :
           \A p \in Positions(ops[n]) :
             at(ops[n], p) # nullptr =>
               assign_entry_check(ops[n], a, p) # OK)
  /\ [][\A n \in Names : \A p \in Positions(ops[n]) :
          at(ops[n], p) # nullptr =>
            at(ops'[n], p) \in {at(ops[n], p), nullptr}]_vars
  /\ [][(last'.fn = "assign_entry" /\ aborted' = "") =>
          \E n \in Names : \E p \in Positions(ops[n]) :
            /\ at(ops[n], p) = nullptr
            /\ at(ops'[n], p) # nullptr
            /\ ops' = [ops EXCEPT ![n].batch_[p] = at(ops'[n], p)]]_vars

\* C1 witness: an assign_entry on an assigned slot has been trapped
C1_Witness ==
  /\ aborted = "assert(!batch_[position])"
  /\ last.fn = "assign_entry"
  /\ \E n \in Names : \E p \in Positions(ops[n]) : at(ops[n], p) # nullptr

\* the indices the last batched call issued a blas call for, with their
\* multiplicity
TimesIssued(i) ==
  Cardinality({x \in DOMAIN dispatched : dispatched[x].i = i})

AllThree(i) ==
  at(ops.a, i) # nullptr /\ at(ops.b, i) # nullptr /\ at(ops.c, i) # nullptr

\* C3: batched_gemm (batched_gemv) issues exactly one gemm (gemv) for each
\* slot index whose a, b and c pointers are all non-null, with these three
\* pointers, and none for an index with a null pointer.
C3_OneCallPerCompleteSlot ==
  (Running /\ last.fn \in {"batched_gemm", "batched_gemv"}) =>
    /\ \A i \in Positions(ops.a) :
         TimesIssued(i) = IF AllThree(i) THEN 1 ELSE 0
    /\ \A x \in DOMAIN dispatched :
         /\ dispatched[x].i \in Positions(ops.a)
         /\ dispatched[x].fn =
              (IF last.fn = "batched_gemm" THEN "gemm" ELSE "gemv")
         /\ dispatched[x].a = at(ops.a, dispatched[x].i)
         /\ dispatched[x].b = at(ops.b, dispatched[x].i)
         /\ dispatched[x].c = at(ops.c, dispatched[x].i)

\* C3 witness: a batched_gemm that issued a call for one index and skipped
\* another
C3_Witness ==
  /\ Running
  /\ last.fn = "batched_gemm"
  /\ \E i, j \in Positions(ops.a) :
       AllThree(i) /\ ~AllThree(j) /\ TimesIssued(i) = 1 /\ TimesIssued(j) = 0

\* the cardinality, transpose and shape preconditions of batched_gemm
GemmShapesAgree ==
  /\ ops.a.num_entries = ops.b.num_entries
  /\ ops.b.num_entries = ops.c.num_entries
  /\ ~ops.c.do_trans
  /\ cols_op(ops.a) = rows_op(ops.b)
  /\ ops.c.nrows = rows_op(ops.a)
  /\ ops.c.ncols = cols_op(ops.b)

\* C4 as stated: a batched_gemm on an operand batch with a null slot is
\* trapped by an assertion.
C4_NullOperandTrapped ==
  (last.fn = "batched_gemm"
     /\ (AnyNull(ops.a) \/ AnyNull(ops.b) \/ AnyNull(ops.c)))
    => aborted # ""

\* C4 amended: batched_gemm traps exactly the cardinality, transpose and
\* shape violations; a null slot is tolerated: the call returns normally and
\* issues no gemm for the index of the null slot.
C4_NullOperandSkipped ==
  last.fn = "batched_gemm" =>
    /\ Running <=> GemmShapesAgree
    /\ Running =>
         \A i \in Positions(ops.a) :
           (at(ops.a, i) = nullptr \/ at(ops.b, i) = nullptr
              \/ at(ops.c, i) = nullptr)
             => \A x \in DOMAIN dispatched : dispatched[x].i # i

\* C4 witness: batched_gemm has returned normally on operands with a null
\* slot
C4_Witness ==
  /\ last.fn = "batched_gemm"
  /\ Running
  /\ AnyNull(ops.b)
  /\ ~AnyNull(ops.a)
  /\ dispatched # <<>>

AllNull(b) == \A p \in Positions(b) : at(b, p) = nullptr
NoneNull(b) == \A p \in Positions(b) : at(b, p) # nullptr

\* C5: is_filled() returns true exactly when every slot is non-null; it is
\* false for a new batch and after clear_all(); clear_entry(p) returns true
\* exactly when slot p was assigned, nulls slot p and changes no other slot.
C5_IsFilledAndClear ==
  /\ [](Running =>
         \A n \in Names :
           /\ is_filled(ops[n]) <=> NoneNull(ops[n])
           /\ AllNull(ops[n]) => ~is_filled(ops[n])
           /\ last.fn = "batch" => ~is_filled(ops[n]))
  /\ [][\A n \in Names :
          /\ (last'.fn = "is_filled" /\ IsFilled(n))
               => last'.value = Returned(NoneNull(ops[n]))
          /\ (last'.fn = "clear_all" /\ ClearAll(n))
               => AllNull(ops'[n]) /\ ~is_filled(ops'[n])
          /\ \A p \in InputPositions :
               (last'.fn = "clear_entry" /\ ClearEntry(n, p)) =>
                 /\ last'.value = Returned(at(ops[n], p) # nullptr)
                 /\ at(ops'[n], p) = nullptr
                 /\ ~is_filled(ops'[n])
                 /\ \A q \in Positions(ops[n]) \ {p} :
                      at(ops'[n], q) = at(ops[n], q)
                 /\ \A m \in Names \ {n} : ops'[m] = ops[m]]_vars

\* C5 witness: a batch of several slots was filled and a clear_entry on it
\* returned true
C5_Witness ==
  /\ last = Call("clear_entry", "true")
  /\ \E n \in Names :
       /\ ops[n].num_entries >= 2
       /\ Cardinality({p \in Positions(ops[n]) : at(ops[n], p) = nullptr}) = 1


\* ------------------------------------------------------------------------
\* element table
\* ------------------------------------------------------------------------
RECURSIVE ipow(_, _)
\* std::pow on non-negative integers
ipow(base, e) == IF e = 0 THEN 1 ELSE base * ipow(base, e - 1)

\* faulty variant: the 1d index ignores the level
get_1d_index_cell_only(level, cell) == cell

\* idx1d(L, C) = C + (L == 0 ? 0 : 2^(L-1))
get_1d_index(level, cell) ==
  cell + (IF level = 0 THEN 0 ELSE ipow(2, level - 1))

\* cells of one dimension at a level: max(1, 2^(level-1))
num_cells(level) == IF level = 0 THEN 1 ELSE ipow(2, level - 1)

RECURSIVE Flatten(_)
Flatten(seqs) ==
  IF seqs = <<>> THEN <<>>
  ELSE IF Len(seqs) = 1 THEN seqs[1]
  ELSE LET mid == Len(seqs) \div 2
       IN Flatten(SubSeq(seqs, 1, mid))
          \o Flatten(SubSeq(seqs, mid + 1, Len(seqs)))

RECURSIVE LexProduct(_)
\* every tuple t with 0 <= t[d] <= maxes[d], in lexicographic order
LexProduct(maxes) ==
  IF maxes = <<>> THEN << <<>> >>
  ELSE LET rest == LexProduct(Tail(maxes))
       IN Flatten([v \in 1..(Head(maxes) + 1) |->
                     [r \in 1..Len(rest) |-> <<v - 1>> \o rest[r]]])

RECURSIVE SumSeq(_)
SumSeq(t) == IF t = <<>> THEN 0 ELSE Head(t) + SumSeq(Tail(t))

SPARSE == "SPARSE"
FULL == "FULL"

\* faulty variant: the sparse grid admits the level tuples of the full grid
admissible_always(levels, max_level, type) == TRUE

\* SPARSE admits sum(level) <= maxLevel, FULL the full tensor product
admissible(levels, max_level, type) ==
  type = FULL \/ SumSeq(levels) <= max_level

\* the level tuples of a table, in lexicographic order
level_tuples(max_level, num_dims, type) ==
  SelectSeq(LexProduct([d \in 1..num_dims |-> max_level]),
            LAMBDA t : admissible(t, max_level, type))

\* the cell tuples of one level tuple, in lexicographic order
cell_tuples(levels) ==
  LexProduct([d \in 1..Len(levels) |-> num_cells(levels[d]) - 1])

\* build(level, D, grid_type): the ordered table of coordinates; the
\* coordinates of an element are its levels followed by its cells
build(max_level, num_dims, type) ==
  LET lts == level_tuples(max_level, num_dims, type)
  IN Flatten([l \in 1..Len(lts) |->
       LET cts == cell_tuples(lts[l])
       IN [c \in 1..Len(cts) |-> lts[l] \o cts[c]]])

Levels(coords) == SubSeq(coords, 1, Len(coords) \div 2)
Cells(coords) == SubSeq(coords, Len(coords) \div 2 + 1, Len(coords))

\* the hash key: the concatenation of the 1d indices of the dimensions
hash_key(coords) ==
  [d \in 1..(Len(coords) \div 2) |->
     get_1d_index(coords[d], coords[d + Len(coords) \div 2])]

SetMax(S) == CHOOSE m \in S : \A z \in S : z <= m

\* the forward map filled in table order, one insertion per element; a
\* later insertion under the same key replaces the earlier one
build_forward(tab) ==
  LET keys == [x \in DOMAIN tab |-> hash_key(tab[x])]
  IN [key \in {keys[x] : x \in DOMAIN tab} |->
        SetMax({x \in DOMAIN tab : keys[x] = key}) - 1]

\* forward(level[], cell[]) -> linear
forward(map, coords) == map[hash_key(coords)]

\* inverse(linear) -> (level[], cell[])
inverse(tab, linear) == tab[linear + 1]

\* size() -> count
table_size(tab) == Len(tab)

GridTypes == {SPARSE, FULL}

\* the continuity_3 table: level 3, 3 dimensions, sparse
Continuity3Grid == [level |-> 3, num_dims |-> 3, type |-> SPARSE]

InputGrids ==
  [level : 0..MaxLevel, num_dims : 1..MaxTableDims, type : GridTypes]
    \cup {Continuity3Grid}

NoLookup == [op |-> "none", arg |-> <<>>, result |-> <<>>]

TableIs(g, tab, map) ==
  /\ grid = g
  /\ table = tab
  /\ fwd = map

TableBuilt(g) ==
  LET tab == build(g.level, g.num_dims, g.type)
  IN TableIs(g, tab, build_forward(tab))

TableInit ==
  /\ \E g \in InputGrids : TableBuilt(g)
  /\ lookup = NoLookup

\* the lookups walk the table as its round-trip test does: inverse(0),
\* forward of the coordinates obtained, inverse(1), ...
next_linear == IF lookup.op = "none" THEN 0 ELSE lookup.result + 1

Inverse ==
  /\ lookup.op \in {"none", "forward"}
  /\ next_linear \in 0..(table_size(table) - 1)
  /\ lookup' = [op |-> "inverse", arg |-> next_linear,
                result |-> inverse(table, next_linear)]
  /\ UNCHANGED <<grid, table, fwd>>

Forward ==
  /\ lookup.op = "inverse"
  /\ lookup' = [op |-> "forward", arg |-> lookup.result,
                result |-> forward(fwd, lookup.result)]
  /\ UNCHANGED <<grid, table, fwd>>

\* ------------------------------------------------------------------------
\* properties of the element table
\* ------------------------------------------------------------------------
\* C8: forward and inverse are mutually inverse: forward(inverse(i)) = i for
\* every linear index i of the table and inverse(forward(L, C)) = (L, C) for
\* every element of the table, for SPARSE and FULL grids.
C8_ForwardInverse ==
  /\ lookup.op = "inverse" => forward(fwd, lookup.result) = lookup.arg
  /\ lookup.op = "forward" => inverse(table, lookup.result) = lookup.arg
  /\ DOMAIN fwd = {hash_key(table[x]) : x \in DOMAIN table}
  /\ \A x \in DOMAIN table : forward(fwd, inverse(table, x - 1)) = x - 1

\* C8 witness: a lookup of the last element of a table of several levels,
\* where the 1d indices of different levels must not collide
C8_Witness ==
  /\ lookup.op = "inverse"
  /\ lookup.arg = table_size(table) - 1
  /\ lookup.arg >= 2
  /\ grid.type = SPARSE
  /\ forward(fwd, lookup.result) = lookup.arg

\* the level tuples with sum <= L over D dimensions, enumerated as a set
SumBounded(max_level, num_dims) ==
  {t \in [1..num_dims -> 0..max_level] : SumSeq(t) <= max_level}

\* the admissible (level, cell) pairs of a sparse grid, enumerated as a set
SparseElements(max_level, num_dims) ==
  {c \in [1..(2 * num_dims) -> 0..ipow(2, max_level)] :
     /\ SumSeq(Levels(c)) <= max_level
     /\ \A d \in 1..num_dims : c[d + num_dims] < num_cells(c[d])}

LevelTuplesOf(tab) == {Levels(tab[x]) : x \in DOMAIN tab}

\* C9 as stated: the sparse table for level 3 over 3 dimensions has exactly
\* 20 entries.
C9_TwentyEntries ==
  grid = Continuity3Grid => table_size(table) = 20

\* C9 amended: a SPARSE table holds only elements with sum(level) <= L, one
\* entry for each admissible (level, cell) pair; its level tuples are
\* the tuples with sum(level) <= L.  For L = 3, D = 3 these are 20 level
\* tuples and the table has 38 entries.
C9_SparseAdmits ==
  grid.type = SPARSE =>
    /\ \A x \in DOMAIN table : SumSeq(Levels(table[x])) <= grid.level
    /\ \A x, z \in DOMAIN table : table[x] = table[z] => x = z
    /\ LevelTuplesOf(table) = SumBounded(grid.level, grid.num_dims)
    /\ \A x \in DOMAIN table : \A d \in 1..grid.num_dims :
         table[x][d + grid.num_dims] \in 0..(num_cells(table[x][d]) - 1)
    /\ grid = Continuity3Grid =>
         /\ Cardinality(LevelTuplesOf(table)) = 20
         /\ table_size(table) = 38
    /\ grid.level <= 2 =>
         {table[x] : x \in DOMAIN table}
           = SparseElements(grid.level, grid.num_dims)

\* C9 witness: the sparse level 3, 3 dimension table, built
C9_Witness ==
  /\ grid = Continuity3Grid
  /\ table_size(table) > 20
  /\ lookup.op = "inverse"


\* ------------------------------------------------------------------------
\* element chunks and the chunker
\* ------------------------------------------------------------------------
\* limits<int>: an inclusive range of connected elements
Limits(start, stop) == [start |-> start, stop |-> stop]

\* an element_chunk maps each of its row elements to the range of connected
\* elements it covers; the couplings it holds:
couplings_of(ch) ==
  UNION {{<<r, c>> : c \in (ch[r].start)..(ch[r].stop)} :
           r \in DOMAIN ch}

\* number of couplings of a chunk
num_elements_in_chunk(ch) == Cardinality(couplings_of(ch))

\* number of distinct connected (input) elements of a chunk
num_inputs_in_chunk(ch) ==
  Cardinality({cp[2] : cp \in couplings_of(ch)})

\* the widest connected range of a chunk
max_connected_in_chunk(ch) ==
  SetMax({ch[r].stop - ch[r].start + 1 : r \in DOMAIN ch} \cup {0})

empty_chunk == <<>>

\* the row elements whose segment of the output vector the reduction of a
\* chunk updates: one gemv per row element of the chunk, accumulated into
\* the output
reduced_rows(ch) == DOMAIN ch

\* faulty variant: a coupling added to a row the chunk already holds restarts
\* the row's range at that coupling
extend_chunk_restart(ch, row, col) ==
  IF row \in DOMAIN ch
    THEN [ch EXCEPT ![row] = Limits(col, col)]
    ELSE [r \in DOMAIN ch \cup {row} |->
            IF r = row THEN Limits(col, col) ELSE ch[r]]

\* the chunk with the coupling (row, col) added at its end
extend_chunk(ch, row, col) ==
  IF row \in DOMAIN ch
    THEN [ch EXCEPT ![row].stop = col]
    ELSE [r \in DOMAIN ch \cup {row} |->
            IF r = row THEN Limits(col, col) ELSE ch[r]]

\* the footprints of a chunk fit the budget
fits(ch, limit) ==
  /\ num_elements_in_chunk(ch) <= limit.couplings
  /\ num_inputs_in_chunk(ch) <= limit.inputs

\* faulty variant: the chunk opened after a split starts one coupling late
open_chunk_late(row, col) == extend_chunk(empty_chunk, row, col + 1)

\* the chunk opened after a split: it starts at the coupling that did not
\* fit the previous chunk
open_chunk(row, col) == extend_chunk(empty_chunk, row, col)

DONE == [row |-> -1, col |-> -1]

\* the coupling after (row, col) in row-major order, or DONE
next_coupling(conn, row, col) ==
  IF col < conn[row].stop THEN [row |-> row, col |-> col + 1]
  ELSE IF row + 1 \in DOMAIN conn
    THEN [row |-> row + 1, col |-> conn[row + 1].start]
  ELSE DONE

\* connectivities handed to the chunker: every element connected to every
\* element, and every element connected to the elements up to itself
FullConnectivity(n) == [r \in 0..(n - 1) |-> Limits(0, n - 1)]
LowerConnectivity(n) == [r \in 0..(n - 1) |-> Limits(0, r)]

InputConnectivities ==
  UNION {{FullConnectivity(n), LowerConnectivity(n)} : n \in 1..MaxElems}

InputBudgets == [couplings : 1..MaxCap, inputs : 1..MaxElems]

ChunkInit ==
  /\ connect \in InputConnectivities
  /\ budget \in InputBudgets
  /\ chunks = <<>>
  /\ cur = empty_chunk
  /\ cursor = [row |-> 0, col |-> connect[0].start]

\* the chunker's progress as one value
ChunkerState(done, filling, position) ==
  [chunks |-> done, cur |-> filling, cursor |-> position]

\* place the next coupling: into the current chunk when it still fits the
\* budget, else into a new chunk opened at this coupling
place_coupling(conn, limit, st) ==
  LET grown == extend_chunk(st.cur, st.cursor.row, st.cursor.col)
      following == next_coupling(conn, st.cursor.row, st.cursor.col)
  IN IF fits(grown, limit)
       THEN ChunkerState(st.chunks, grown, following)
       ELSE ChunkerState(Append(st.chunks, st.cur),
                         open_chunk(st.cursor.row, st.cursor.col),
                         following)

\* all couplings placed: the last chunk is completed
finish_chunks(st) ==
  ChunkerState(Append(st.chunks, st.cur), empty_chunk, st.cursor)

PlaceCoupling ==
  /\ cursor # DONE
  /\ LET st == place_coupling(connect, budget,
                              ChunkerState(chunks, cur, cursor))
     IN /\ chunks' = st.chunks
        /\ cur' = st.cur
        /\ cursor' = st.cursor
  /\ UNCHANGED <<connect, budget>>

FinishChunks ==
  /\ cursor = DONE
  /\ cur # empty_chunk
  /\ LET st == finish_chunks(ChunkerState(chunks, cur, cursor))
     IN /\ chunks' = st.chunks
        /\ cur' = st.cur
  /\ UNCHANGED <<connect, budget, cursor>>

RECURSIVE first_chunks(_, _, _, _)
\* the first (at most) count chunks of the list the chunker produces
first_chunks(conn, limit, st, count) ==
  IF Len(st.chunks) >= count THEN st.chunks
  ELSE IF st.cursor = DONE THEN finish_chunks(st).chunks
  ELSE first_chunks(conn, limit, place_coupling(conn, limit, st), count)

ChunkerDone == cursor = DONE /\ cur = empty_chunk

\* ------------------------------------------------------------------------
\* properties of the chunker
\* ------------------------------------------------------------------------
AllCouplings == couplings_of(connect)

\* C10: every coupling of the coupling set belongs to exactly one chunk of
\* the list the chunker produces: the chunks are pairwise disjoint and
\* their union is the full coupling set.
C10_ChunksPartition ==
  /\ \A x, z \in DOMAIN chunks :
       x # z => couplings_of(chunks[x]) \cap couplings_of(chunks[z]) = {}
  /\ \A x \in DOMAIN chunks :
       /\ couplings_of(chunks[x]) # {}
       /\ couplings_of(chunks[x]) \cap couplings_of(cur) = {}
  /\ ChunkerDone =>
       UNION {couplings_of(chunks[x]) : x \in DOMAIN chunks} = AllCouplings
  /\ ChunkerDone =>
       \A cp \in AllCouplings :
         Cardinality({x \in DOMAIN chunks : cp \in couplings_of(chunks[x])})
           = 1

\* C10 witness: the chunker has finished with a row split over two chunks
C10_Witness ==
  /\ ChunkerDone
  /\ Len(chunks) >= 3
  /\ \E x, z \in DOMAIN chunks :
       x # z /\ DOMAIN chunks[x] \cap DOMAIN chunks[z] # {}

\* C26 as stated: every chunk writes a slice of the output vector disjoint
\* from the slice of every other chunk: no row element's output segment is
\* updated by two different chunks.
C26_DisjointSlices ==
  \A x, z \in DOMAIN chunks :
    x # z => reduced_rows(chunks[x]) \cap reduced_rows(chunks[z]) = {}

\* C26: the chunks of one time step hold disjoint sets of couplings, but a
\* row the chunker split belongs to every chunk holding a part of it, and
\* each of them updates that row element's output segment.  Two chunks
\* share at most one row element, the last row of the earlier chunk and
\* the first of the later one, and over all chunks the parts accumulated
\* into a row's segment are the row's connected range, each connected
\* element once.
C26_SharedRowAccumulates ==
  /\ \A x, z \in DOMAIN chunks :
       x < z =>
         /\ couplings_of(chunks[x]) \cap couplings_of(chunks[z]) = {}
         /\ Cardinality(reduced_rows(chunks[x])
                          \cap reduced_rows(chunks[z])) <= 1
         /\ \A r \in reduced_rows(chunks[x]) \cap reduced_rows(chunks[z]) :
              /\ r = SetMax(reduced_rows(chunks[x]))
              /\ \A q \in reduced_rows(chunks[z]) : r <= q
              /\ chunks[x][r].stop < chunks[z][r].start
  /\ ChunkerDone =>
       \A r \in DOMAIN connect :
         /\ \E x \in DOMAIN chunks : r \in reduced_rows(chunks[x])
         /\ \A c \in (connect[r].start)..(connect[r].stop) :
              Cardinality({x \in DOMAIN chunks :
                             /\ r \in reduced_rows(chunks[x])
                             /\ c >= chunks[x][r].start
                             /\ c <= chunks[x][r].stop}) = 1

\* the chunker has finished, and one row element is updated by three chunks
\* while another is updated by one only
C26_Witness ==
  /\ ChunkerDone
  /\ \E r, q \in DOMAIN connect :
       /\ Cardinality({x \in DOMAIN chunks :
                         r \in reduced_rows(chunks[x])}) = 3
       /\ Cardinality({x \in DOMAIN chunks :
                         q \in reduced_rows(chunks[x])}) = 1

\* ------------------------------------------------------------------------
\* batch allocation
\* ------------------------------------------------------------------------
\* element i of a C++ vector held as a sequence
At0(seq, i) == seq[i + 1]

\* faulty variant: the last dimension is sized like an intermediate one and the
\* intermediate ones one power too high
compute_batch_size_all(degree, num_dims, dimension) ==
  IF dimension = 0 THEN 1 ELSE ipow(degree, num_dims - dimension)

\* faulty variant: one gemm at every dimension
compute_batch_size_one(degree, num_dims, dimension) == 1

\* how many gemms one kronmult_to_batch_sets call adds at a dimension
compute_batch_size(degree, num_dims, dimension) ==
  IF dimension = 0 \/ dimension = num_dims - 1
    THEN 1
    ELSE ipow(degree, num_dims - dimension - 1)

\* matrix_size_set
SizeSet(rows_a, cols_a, rows_b, cols_b) ==
  [rows_a |-> rows_a, cols_a |-> cols_a, rows_b |-> rows_b,
   cols_b |-> cols_b]

\* faulty variant: the left operand of a dimension >= 1 has degree^(d+1) rows
compute_dimensions_tall(degree, num_dims, dimension) ==
  IF dimension = 0
    THEN SizeSet(degree, degree, degree, ipow(degree, num_dims - 1))
    ELSE SizeSet(ipow(degree, dimension + 1), degree, degree, degree)

\* the operand shapes of the gemms of a dimension
compute_dimensions(degree, num_dims, dimension) ==
  IF dimension = 0
    THEN SizeSet(degree, degree, degree, ipow(degree, num_dims - 1))
    ELSE SizeSet(ipow(degree, dimension), degree, degree, degree)

\* side of every coefficient matrix: degree * 2^level
coefficient_side(eq) == eq.degree * ipow(2, eq.level)

\* pde.get_coefficients(k, d): the owning matrix
get_coefficients(eq, k, d) ==
  [buf |-> "coefficient", id |-> <<k, d>>,
   nrows |-> coefficient_side(eq), ncols |-> coefficient_side(eq),
   stride |-> coefficient_side(eq)]

\* faulty variant: the product of dimension 0 is shaped like its left operand
allocate_first_square(eq, num_elems) ==
  LET num_gemms == eq.num_terms * num_elems
      sizes == compute_dimensions(eq.degree, eq.num_dims, 0)
      stride == get_coefficients(eq, 0, 0).stride
  IN << batch(num_gemms, sizes.rows_a, sizes.cols_a, stride, FALSE),
        batch(num_gemms, sizes.rows_b, sizes.cols_b, sizes.rows_b, FALSE),
        batch(num_gemms, sizes.rows_a, sizes.cols_a, sizes.rows_a, FALSE) >>

\* the operand set <<a, b, c>> of dimension 0
allocate_first(eq, num_elems) ==
  LET num_gemms == eq.num_terms * num_elems
      sizes == compute_dimensions(eq.degree, eq.num_dims, 0)
      stride == get_coefficients(eq, 0, 0).stride
  IN << batch(num_gemms, sizes.rows_a, sizes.cols_a, stride, FALSE),
        batch(num_gemms, sizes.rows_b, sizes.cols_b, sizes.rows_b, FALSE),
        batch(num_gemms, sizes.rows_a, sizes.cols_b, sizes.rows_a, FALSE) >>

\* faulty variant: every dimension i >= 1 is given the slots of an
\* intermediate dimension one lower
allocate_remaining_wide(eq, num_elems, i) ==
  LET num_gemms == ipow(eq.degree, eq.num_dims - i)
                     * eq.num_terms * num_elems
      sizes == compute_dimensions(eq.degree, eq.num_dims, i)
      stride == get_coefficients(eq, 0, i).stride
  IN << batch(num_gemms, sizes.rows_a, sizes.cols_a, sizes.rows_a, FALSE),
        batch(num_gemms, sizes.rows_b, sizes.cols_b, stride, TRUE),
        batch(num_gemms, sizes.rows_a, sizes.rows_b, sizes.rows_a, FALSE) >>

\* the operand set <<a, b, c>> of a dimension i >= 1
allocate_remaining(eq, num_elems, i) ==
  LET num_gemms == compute_batch_size(eq.degree, eq.num_dims, i)
                     * eq.num_terms * num_elems
      sizes == compute_dimensions(eq.degree, eq.num_dims, i)
      stride == get_coefficients(eq, 0, i).stride
  IN << batch(num_gemms, sizes.rows_a, sizes.cols_a, sizes.rows_a, FALSE),
        batch(num_gemms, sizes.rows_b, sizes.cols_b, stride, TRUE),
        batch(num_gemms, sizes.rows_a, sizes.rows_b, sizes.rows_a, FALSE) >>

\* allocate_batches: empty batches of the right shape and cardinality, one
\* operand set per dimension
allocate_batches(eq, num_elems) ==
  [x \in 1..eq.num_dims |->
     IF x = 1 THEN allocate_first(eq, num_elems)
     ELSE allocate_remaining(eq, num_elems, x - 1)]

\* ------------------------------------------------------------------------
\* views
\* ------------------------------------------------------------------------
\* fk::vector view of elements start..stop of a buffer
vector_view(buf, start, stop) ==
  [buf |-> buf, off |-> start, size |-> stop - start + 1]

\* fk::matrix view laid over a vector view, offset elements into it
matrix_view_of_vector(v, nrows, ncols, offset) ==
  View(nrows, ncols, nrows, Ptr(v.buf, v.off + offset))

\* fk::matrix view of rows r0..r1, columns c0..c1 of an owning matrix
matrix_view_of_matrix(m, r0, r1, c0, c1) ==
  View(r1 - r0 + 1, c1 - c0 + 1, m.stride,
       [buf |-> m.buf, id |-> m.id, off |-> c0 * m.stride + r0])

\* ------------------------------------------------------------------------
\* kronmult_to_batch_sets
\* ------------------------------------------------------------------------
\* one call batches[dimension][operand].assign_entry(view, position)
Request(dimension, operand, view, position) ==
  [kind |-> "assign", dimension |-> dimension, operand |-> operand,
   view |-> view, position |-> position]

\* one assert(condition) met between the assign_entry calls
Assertion(holds, text) == [kind |-> "assert", holds |-> holds, text |-> text]

\* faulty variant: kron_base enqueues the input as the output and the output as
\* the input
kron_base_swapped(A, x, y, batch_offset, degree, num_dims) ==
  LET sizes == compute_dimensions(degree, num_dims, 0)
  IN << Request(0, 0, A, batch_offset),
        Request(0, 1, matrix_view_of_vector(y, sizes.rows_b, sizes.cols_b, 0),
                batch_offset),
        Request(0, 2, matrix_view_of_vector(x, sizes.rows_a, sizes.cols_b, 0),
                batch_offset) >>

\* kron_base: the gemm of dimension 0, A * x -> y
kron_base(A, x, y, batch_offset, degree, num_dims) ==
  LET sizes == compute_dimensions(degree, num_dims, 0)
  IN << Request(0, 0, A, batch_offset),
        Request(0, 1, matrix_view_of_vector(x, sizes.rows_b, sizes.cols_b, 0),
                batch_offset),
        Request(0, 2, matrix_view_of_vector(y, sizes.rows_a, sizes.cols_b, 0),
                batch_offset) >>

\* the assertions on entry of kronmult_to_batch_sets, in source order
kronmult_check(A, x, y, work, num_sets, batch_offset, eq) ==
  LET result_size == ipow(eq.degree, eq.num_dims)
  IN IF ~(x.size = result_size) THEN "assert(x.size() == result_size)"
     ELSE IF ~(y.size = result_size) THEN "assert(y.size() == result_size)"
     ELSE IF ~(Len(work) = IF eq.num_dims - 1 < 2 THEN eq.num_dims - 1 ELSE 2)
       THEN "assert(work.size() == std::min(pde.num_dims - 1, 2))"
     ELSE IF \E w \in DOMAIN work : ~(work[w].size = result_size)
       THEN "assert(vector.size() == result_size)"
     ELSE IF \E m \in DOMAIN A :
               ~(A[m].nrows = eq.degree) \/ ~(A[m].ncols = eq.degree)
       THEN LET bad == {m \in DOMAIN A :
                         ~(A[m].nrows = eq.degree) \/ ~(A[m].ncols = eq.degree)}
                first == CHOOSE m \in bad : \A q \in bad : m <= q
            IN IF ~(A[first].nrows = eq.degree)
                 THEN "assert(matrix.nrows() == degree)"
                 ELSE "assert(matrix.ncols() == degree)"
     ELSE IF ~(num_sets = eq.num_dims)
       THEN "assert(batches.size() == pde.num_dims)"
     ELSE IF ~(batch_offset >= 0) THEN "assert(batch_offset >= 0)"
     ELSE OK

\* faulty variant: an intermediate gemm reads the workspace it writes
intermediate_gemm_in_place(A, work, batch_offset, eq, dimension, gemm) ==
  LET sizes == compute_dimensions(eq.degree, eq.num_dims, dimension)
      num_gemms == compute_batch_size(eq.degree, eq.num_dims, dimension)
      offset == sizes.rows_a * sizes.cols_a
  IN << Request(dimension, 0,
                matrix_view_of_vector(At0(work, dimension % 2),
                                      sizes.rows_a, sizes.cols_a,
                                      offset * gemm),
                batch_offset * num_gemms + gemm),
        Request(dimension, 1, At0(A, dimension),
                batch_offset * num_gemms + gemm),
        Request(dimension, 2,
                matrix_view_of_vector(At0(work, dimension % 2),
                                      sizes.rows_a, sizes.cols_a,
                                      offset * gemm),
                batch_offset * num_gemms + gemm) >>

\* the three assign_entry calls of one gemm of an intermediate dimension
intermediate_gemm(A, work, batch_offset, eq, dimension, gemm) ==
  LET sizes == compute_dimensions(eq.degree, eq.num_dims, dimension)
      num_gemms == compute_batch_size(eq.degree, eq.num_dims, dimension)
      offset == sizes.rows_a * sizes.cols_a
  IN << Request(dimension, 0,
                matrix_view_of_vector(At0(work, (dimension - 1) % 2),
                                      sizes.rows_a, sizes.cols_a,
                                      offset * gemm),
                batch_offset * num_gemms + gemm),
        Request(dimension, 1, At0(A, dimension),
                batch_offset * num_gemms + gemm),
        Request(dimension, 2,
                matrix_view_of_vector(At0(work, dimension % 2),
                                      sizes.rows_a, sizes.cols_a,
                                      offset * gemm),
                batch_offset * num_gemms + gemm) >>

\* one intermediate dimension: the assertion on the gemm count, then the
\* loop over its gemms
intermediate_dimension(A, work, batch_offset, eq, dimension) ==
  LET sizes == compute_dimensions(eq.degree, eq.num_dims, dimension)
      num_gemms == compute_batch_size(eq.degree, eq.num_dims, dimension)
      offset == sizes.rows_a * sizes.cols_a
  IN << Assertion(offset * num_gemms = ipow(eq.degree, eq.num_dims),
          "assert((offset * num_gemms) == pow(degree, pde.num_dims))") >>
     \o Flatten([g \in 1..num_gemms |->
          intermediate_gemm(A, work, batch_offset, eq, dimension, g - 1)])

\* faulty variant: the gemm of the highest dimension always reads work[0]
highest_dimension_first_work(A, y, work, batch_offset, eq) ==
  LET sizes == compute_dimensions(eq.degree, eq.num_dims, eq.num_dims - 1)
  IN << Request(eq.num_dims - 1, 0,
                matrix_view_of_vector(At0(work, 0),
                                      sizes.rows_a, sizes.cols_a, 0),
                batch_offset),
        Request(eq.num_dims - 1, 1, At0(A, eq.num_dims - 1), batch_offset),
        Request(eq.num_dims - 1, 2,
                matrix_view_of_vector(y, sizes.rows_a, sizes.cols_a, 0),
                batch_offset) >>

\* the gemm of the highest dimension, written into y
highest_dimension(A, y, work, batch_offset, eq) ==
  LET sizes == compute_dimensions(eq.degree, eq.num_dims, eq.num_dims - 1)
  IN << Request(eq.num_dims - 1, 0,
                matrix_view_of_vector(At0(work, eq.num_dims % 2),
                                      sizes.rows_a, sizes.cols_a, 0),
                batch_offset),
        Request(eq.num_dims - 1, 1, At0(A, eq.num_dims - 1), batch_offset),
        Request(eq.num_dims - 1, 2,
                matrix_view_of_vector(y, sizes.rows_a, sizes.cols_a, 0),
                batch_offset) >>

\* the assign_entry calls of one kronmult_to_batch_sets, in source order
kronmult_requests(A, x, y, work, batch_offset, eq) ==
  IF eq.num_dims = 1
    THEN kron_base(At0(A, 0), x, y, batch_offset, eq.degree, eq.num_dims)
    ELSE kron_base(At0(A, 0), x, At0(work, 0), batch_offset, eq.degree,
                   eq.num_dims)
         \o Flatten([d \in 1..(eq.num_dims - 2) |->
                       intermediate_dimension(A, work, batch_offset, eq, d)])
         \o highest_dimension(A, y, work, batch_offset, eq)

\* the batches and the abort state while the requests are carried out
Progress(sets, failure) == [batches |-> sets, aborted |-> failure]

\* carry out one call: an assertion, or an assign_entry
apply_request(st, r) ==
  IF st.aborted # "" THEN st
  ELSE IF r.kind = "assert"
    THEN IF r.holds THEN st ELSE Progress(st.batches, r.text)
  ELSE LET b == st.batches[r.dimension + 1][r.operand + 1]
           chk == assign_entry_check(b, r.view, r.position)
       IN IF chk # OK THEN Progress(st.batches, chk)
          ELSE Progress([st.batches EXCEPT
                           ![r.dimension + 1][r.operand + 1] =
                             assign_entry(b, r.view, r.position)], "")

RECURSIVE apply_requests(_, _, _, _)
\* carry out the calls from..to in order until an assertion fails
apply_requests(st, reqs, from, to) ==
  IF from > to \/ st.aborted # "" THEN st
  ELSE IF from = to THEN apply_request(st, reqs[from])
  ELSE LET mid == (from + to) \div 2
       IN apply_requests(apply_requests(st, reqs, from, mid),
                         reqs, mid + 1, to)

\* kronmult_to_batch_sets: the batches after the call, or the assertion
\* that failed
kronmult_to_batch_sets(A, x, y, work, sets, batch_offset, eq) ==
  LET chk == kronmult_check(A, x, y, work, Len(sets), batch_offset, eq)
  IN IF chk # OK THEN Progress(sets, chk)
     ELSE LET reqs == kronmult_requests(A, x, y, work, batch_offset, eq)
          IN apply_requests(Progress(sets, ""), reqs, 1, Len(reqs))

\* ------------------------------------------------------------------------
\* build_batches
\* ------------------------------------------------------------------------
\* linearize: the 1d index of an element in every dimension, from its
\* coordinates (levels followed by cells)
linearize(coords) ==
  [d \in 1..(Len(coords) \div 2) |->
     get_1d_index(coords[d], coords[d + Len(coords) \div 2])]

\* faulty variant: the window begins at the 1d index, not scaled by degree
operator_position_unscaled(indices, degree) ==
  [d \in DOMAIN indices |-> indices[d]]

\* operator_row / operator_col: first row (column) of the element's window
\* into the coefficient matrix, per dimension
operator_position(indices, degree) ==
  [d \in DOMAIN indices |-> indices[d] * degree]

first_row(ch) == CHOOSE r \in DOMAIN ch : \A q \in DOMAIN ch : r <= q

RECURSIVE connected_before(_, _, _)
\* couplings of the rows from..(i - 1) of a chunk
connected_before(ch, from, i) ==
  IF from >= i THEN 0
  ELSE ch[from].stop - ch[from].start + 1 + connected_before(ch, from + 1, i)

\* faulty variant: the rows before row i are not counted
prev_row_elems_none(ch, i) == 0

\* prev_row_elems: couplings of the chunk in the rows before row i
prev_row_elems(ch, i) ==
  IF i = first_row(ch) THEN 0 ELSE connected_before(ch, first_row(ch), i)

\* faulty variant: the position of j in its row is not counted
total_prev_elems_rows_only(ch, i, j) == prev_row_elems(ch, i)

\* total_prev_elems: couplings of the chunk before (i, j)
total_prev_elems(ch, i, j) == prev_row_elems(ch, i) + j - ch[i].start

\* faulty variant: the index is not scaled by the number of terms
kron_index_unscaled(k, prev_elems, num_terms) == k + prev_elems

\* kron_index = k + total_prev_elems * pde.num_terms
kron_index(k, prev_elems, num_terms) == k + prev_elems * num_terms

\* faulty variant: two workspaces whatever the number of dimensions
num_workspaces_two(eq) == 2

num_workspaces(eq) == IF eq.num_dims - 1 < 2 THEN eq.num_dims - 1 ELSE 2

elem_size(eq) == ipow(eq.degree, eq.num_dims)

\* faulty variant: the work index is not scaled by the number of workspaces
work_views_unscaled(eq, index) ==
  LET work_index == elem_size(eq) * index
  IN [w \in 1..num_workspaces(eq) |->
        IF w = 2
          THEN vector_view("batch_intermediate", work_index + elem_size(eq),
                           work_index + elem_size(eq) * 2 - 1)
          ELSE vector_view("batch_intermediate", work_index,
                           work_index + elem_size(eq) - 1)]

\* the views of the two (at most) intermediate workspaces of a triple
work_views(eq, index) ==
  LET work_index == elem_size(eq) * index * num_workspaces(eq)
  IN [w \in 1..num_workspaces(eq) |->
        IF w = 2
          THEN vector_view("batch_intermediate", work_index + elem_size(eq),
                           work_index + elem_size(eq) * 2 - 1)
          ELSE vector_view("batch_intermediate", work_index,
                           work_index + elem_size(eq) - 1)]

\* faulty variant: the operator views are pushed for d = 0 up to num_dims-1
operator_views_forward(eq, k, operator_row, operator_col) ==
  [x \in 1..eq.num_dims |->
     LET d == x - 1
     IN matrix_view_of_matrix(get_coefficients(eq, k, d),
          operator_row[d + 1], operator_row[d + 1] + eq.degree - 1,
          operator_col[d + 1], operator_col[d + 1] + eq.degree - 1)]

\* the operator views of a triple: pushed for d = num_dims-1 down to 0
operator_views(eq, k, operator_row, operator_col) ==
  [x \in 1..eq.num_dims |->
     LET d == eq.num_dims - x
     IN matrix_view_of_matrix(get_coefficients(eq, k, d),
          operator_row[d + 1], operator_row[d + 1] + eq.degree - 1,
          operator_col[d + 1], operator_col[d + 1] + eq.degree - 1)]

\* faulty variant: the input segment is not wrapped at the table size
x_index_unwrapped(prev_elems, size, esize) == prev_elems * esize

\* x_index = (total_prev_elems % elem_table.size()) * elem_size
x_index(prev_elems, size, esize) == (prev_elems % size) * esize

\* the arguments of the kronmult_to_batch_sets call of the triple (i, j, k)
triple_call(eq, tab, ch, i, j, k) ==
  LET operator_row == operator_position(linearize(inverse(tab, i)), eq.degree)
      operator_col == operator_position(linearize(inverse(tab, j)), eq.degree)
      prev_elems == total_prev_elems(ch, i, j)
      index == kron_index(k, prev_elems, eq.num_terms)
      y_index == elem_size(eq) * index
      x_start == x_index(prev_elems, table_size(tab), elem_size(eq))
  IN [i |-> i, j |-> j, k |-> k,
      A |-> operator_views(eq, k, operator_row, operator_col),
      x |-> vector_view("batch_input", x_start, x_start + elem_size(eq) - 1),
      y |-> vector_view("reduction_space", y_index,
                        y_index + elem_size(eq) - 1),
      work |-> work_views(eq, index),
      batch_offset |-> index]

\* the triples of a chunk in loop order: rows, connected elements, terms
triples(ch, num_terms) ==
  Flatten([r \in 1..Cardinality(DOMAIN ch) |->
    LET i == first_row(ch) + r - 1
    IN Flatten([c \in 1..(ch[i].stop - ch[i].start + 1) |->
         [t \in 1..num_terms |->
            [i |-> i, j |-> ch[i].start + c - 1, k |-> t - 1]]])])

\* the buffers of the rank workspace, sized from the chunk
rank_workspace(eq, ch) ==
  LET reduction == elem_size(eq) * eq.num_terms * num_elements_in_chunk(ch)
  IN [batch_input |-> elem_size(eq) * num_inputs_in_chunk(ch),
      reduction_space |-> reduction,
      batch_intermediate |-> reduction * num_workspaces(eq),
      unit_vector |-> eq.num_terms * max_connected_in_chunk(ch)]

\* the assertions on entry of build_batches, in source order
build_batches_check(eq, ws, ch) ==
  IF ~(ws.batch_input >= Cardinality(DOMAIN ch))
    THEN "assert(workspace.batch_input.size() >= x_size)"
  ELSE IF ~(ws.reduction_space
              >= elem_size(eq) * num_elements_in_chunk(ch) * eq.num_terms)
    THEN "assert(workspace.reduction_space.size() >= ...)"
  ELSE IF ~(ws.batch_intermediate = ws.reduction_space * num_workspaces(eq))
    THEN "assert(workspace.batch_intermediate.size() == ...)"
  ELSE IF ~(ws.unit_vector >= eq.num_terms * max_connected_in_chunk(ch))
    THEN "assert(workspace.get_unit_vector().size() >= max_items_to_reduce)"
  ELSE OK

\* the PDEs batched
PDE(num_dims, num_terms, degree, level) ==
  [num_dims |-> num_dims, num_terms |-> num_terms, degree |-> degree,
   level |-> level]

\* the element tables batched over: sparse grids, and full grids of
\* level <= 1
KronGrids ==
  {g \in [level : 0..MaxKronLevel, num_dims : 1..MaxDims, type : GridTypes] :
     g.type = SPARSE \/ g.level <= 1}

\* six dimensions of degree 4, one term, one element
Kron6Grid == [level |-> 0, num_dims |-> 6, type |-> SPARSE]
Kron6PDE == PDE(6, 1, 4, 0)

KronStart(g, tab, map, eq, ch) ==
  /\ TableIs(g, tab, map)
  /\ lookup = NoLookup
  /\ pde = eq
  /\ chunk = ch
  /\ workspace = rank_workspace(eq, ch)
  /\ batches = <<>>
  /\ pc = "begin"
  /\ kcalls = <<>>
  /\ aborted = ""

ChunkList(n, limit) ==
  first_chunks(FullConnectivity(n), limit,
               ChunkerState(<<>>, empty_chunk, [row |-> 0, col |-> 0]),
               MaxChunks)

KronInit ==
  \/ \E g \in KronGrids :
       LET tab == build(g.level, g.num_dims, g.type)
           map == build_forward(tab)
       IN \E limit \in InputBudgets :
            LET list == ChunkList(table_size(tab), limit)
            IN \E x \in DOMAIN list, degree \in 1..MaxDegree,
                  num_terms \in 1..MaxTerms :
                 KronStart(g, tab, map,
                           PDE(g.num_dims, num_terms, degree, g.level),
                           list[x])
  \/ LET tab == build(Kron6Grid.level, Kron6Grid.num_dims, Kron6Grid.type)
     IN KronStart(Kron6Grid, tab, build_forward(tab), Kron6PDE,
                  ChunkList(1, [couplings |-> 1, inputs |-> 1])[1])

\* entry of build_batches: the assertions, then allocate_batches
BuildBegin ==
  /\ pc = "begin"
  /\ aborted = ""
  /\ LET chk == build_batches_check(pde, workspace, chunk)
     IN IF chk = OK
        THEN /\ batches' = allocate_batches(pde, num_elements_in_chunk(chunk))
             /\ pc' = "loop"
             /\ aborted' = ""
        ELSE /\ aborted' = chk
             /\ UNCHANGED <<batches, pc>>
  /\ UNCHANGED <<pde, chunk, workspace, kcalls, tableVars>>

\* the assertions on the coordinates of the element and of the connected
\* element of a triple
coords_check(eq, tab, i, j) ==
  IF ~(Len(inverse(tab, i)) = eq.num_dims * 2)
       \/ ~(Len(inverse(tab, j)) = eq.num_dims * 2)
    THEN "assert(coords.size() == pde.num_dims * 2)"
    ELSE OK

\* one iteration of the innermost loop of build_batches
KronTriple ==
  /\ pc = "loop"
  /\ aborted = ""
  /\ Len(kcalls) < Len(triples(chunk, pde.num_terms))
  /\ LET t == triples(chunk, pde.num_terms)[Len(kcalls) + 1]
         chk == coords_check(pde, table, t.i, t.j)
         call == triple_call(pde, table, chunk, t.i, t.j, t.k)
         res == kronmult_to_batch_sets(call.A, call.x, call.y, call.work,
                                       batches, call.batch_offset, pde)
     IN IF chk # OK
        THEN /\ aborted' = chk
             /\ UNCHANGED <<batches, kcalls>>
        ELSE /\ batches' = res.batches
             /\ aborted' = res.aborted
             /\ kcalls' = Append(kcalls, call)
  /\ UNCHANGED <<pde, chunk, workspace, pc, tableVars>>

\* the triples of row i of a chunk, in loop order
row_triples(ch, num_terms, i) ==
  LET OfRow(t) == t.i = i
  IN SelectSeq(triples(ch, num_terms), OfRow)

\* the calls made so far for row i
calls_of_row(i) ==
  LET OfRow(call) == call.i = i
  IN SelectSeq(kcalls, OfRow)

\* the log of calls with one more call, kept in the order of the loops
\* (row, then column, then term) whatever the order the calls were made in
logged(calls, call) ==
  LET Earlier(c) == \/ c.i < call.i
                    \/ c.i = call.i /\ c.j < call.j
                    \/ c.i = call.i /\ c.j = call.j /\ c.k < call.k
      Later(c) == ~Earlier(c)
  IN SelectSeq(calls, Earlier) \o <<call>> \o SelectSeq(calls, Later)

\* one iteration of the innermost loop, taken by the iteration of row i
\* while the iterations of the other rows are under way
ParTriple(i) ==
  /\ pc = "loop"
  /\ aborted = ""
  /\ Len(calls_of_row(i)) < Len(row_triples(chunk, pde.num_terms, i))
  /\ LET t == row_triples(chunk, pde.num_terms, i)[Len(calls_of_row(i)) + 1]
         chk == coords_check(pde, table, t.i, t.j)
         call == triple_call(pde, table, chunk, t.i, t.j, t.k)
         res == kronmult_to_batch_sets(call.A, call.x, call.y, call.work,
                                       batches, call.batch_offset, pde)
     IN IF chk # OK
        THEN /\ aborted' = chk
             /\ UNCHANGED <<batches, kcalls>>
        ELSE /\ batches' = res.batches
             /\ aborted' = res.aborted
             /\ kcalls' = logged(kcalls, call)
  /\ UNCHANGED <<pde, chunk, workspace, pc, tableVars>>

RECURSIVE sequential_batches(_, _, _, _, _)
\* the batches build_batches returns when the loops run in source order:
\* the calls of the triples from the one numbered next on
sequential_batches(eq, tab, ch, sets, next) ==
  IF next > Len(triples(ch, eq.num_terms)) THEN sets
  ELSE LET t == triples(ch, eq.num_terms)[next]
           call == triple_call(eq, tab, ch, t.i, t.j, t.k)
           res == kronmult_to_batch_sets(call.A, call.x, call.y, call.work,
                                         sets, call.batch_offset, eq)
       IN sequential_batches(eq, tab, ch, res.batches, next + 1)

\* the loops are over: build_batches returns the batches
BuildReturn ==
  /\ pc = "loop"
  /\ aborted = ""
  /\ Len(kcalls) = Len(triples(chunk, pde.num_terms))
  /\ pc' = "done"
  /\ UNCHANGED <<pde, chunk, workspace, batches, kcalls, aborted, tableVars>>

\* ------------------------------------------------------------------------
\* properties of build_batches
\* ------------------------------------------------------------------------
\* the positions of a batch that hold a pointer
Filled(b) == {p \in Positions(b) : b.batch_[p] # nullptr}

\* the gemms enqueued at a dimension: slots complete in all three operands
GemmSlots(set) == Filled(set[1]) \cap Filled(set[2]) \cap Filled(set[3])

OperandsAgree(set) ==
  Filled(set[1]) = Filled(set[2]) /\ Filled(set[2]) = Filled(set[3])

Building == pc \in {"loop", "done"}

\* C2: for every triple (i, j, k) of a chunk the kron_index handed to
\* kronmult_to_batch_sets is k + (couplings before (i, j)) * T, differs from
\* that of every other triple of the chunk, and lies in
\* 0 .. T * couplings_in_chunk - 1; so no assign_entry of a build_batches
\* call finds its slot already taken.
C2_KronIndexUnique ==
  Building =>
    /\ \A a \in DOMAIN kcalls :
         LET before == Cardinality(
               {cp \in couplings_of(chunk) :
                  cp[1] < kcalls[a].i
                    \/ (cp[1] = kcalls[a].i /\ cp[2] < kcalls[a].j)})
         IN /\ kcalls[a].batch_offset = kcalls[a].k + before * pde.num_terms
            /\ kcalls[a].batch_offset >= 0
            /\ kcalls[a].batch_offset
                 < pde.num_terms * Cardinality(couplings_of(chunk))
    /\ \A a, b \in DOMAIN kcalls :
         kcalls[a].batch_offset = kcalls[b].batch_offset => a = b
    /\ aborted # "assert(!batch_[position])"
    /\ pc = "done" =>
         {<<kcalls[a].i, kcalls[a].j, kcalls[a].k>> : a \in DOMAIN kcalls}
           = {<<cp[1], cp[2], k>> :
                cp \in couplings_of(chunk), k \in 0..(pde.num_terms - 1)}

\* a chunk over two rows, batched with two terms, to the end
C2_Witness ==
  /\ pc = "done"
  /\ aborted = ""
  /\ pde.num_terms >= 2
  /\ Cardinality(DOMAIN chunk) >= 2
  /\ Len(kcalls) >= 4

\* gemm slots one triple takes at a dimension of a PDE of num_dims >= 2
SlotsPerTriple(degree, num_dims, dimension) ==
  IF dimension = 0 THEN 1
  ELSE IF dimension = num_dims - 1 THEN 1
  ELSE ipow(degree, num_dims - 1 - dimension)

\* C6: in a PDE of D >= 2 dimensions and degree p every completed
\* kronmult_to_batch_sets call assigns 1 gemm slot at dimension 0,
\* p^(D-1-d) at each dimension d in 1..D-2 and 1 at dimension D-1, in each
\* of the three operands, and no call fails; for D = 6, p = 4, one coupling
\* and one term the assigned gemm slots over all dimensions are 342.
C6_SlotsPerDimension ==
  (Building /\ pde.num_dims >= 2) =>
    /\ aborted = ""
    /\ \A d \in 0..(pde.num_dims - 1) :
         /\ OperandsAgree(batches[d + 1])
         /\ Cardinality(GemmSlots(batches[d + 1]))
              = Len(kcalls) * SlotsPerTriple(pde.degree, pde.num_dims, d)
    /\ (pde.num_dims = 6 /\ pde.degree = 4 /\ Len(kcalls) = 1) =>
         SumSeq([x \in 1..6 |-> Cardinality(GemmSlots(batches[x]))]) = 342

\* the six-dimensional PDE of degree 4 after its one triple
C6_Witness ==
  /\ pc = "done"
  /\ aborted = ""
  /\ pde.num_dims = 6
  /\ pde.degree = 4
  /\ pde.num_terms = 1
  /\ Len(kcalls) = 1
  /\ Cardinality(GemmSlots(batches[2])) = 256

\* every pointer held by the batches
Pointers ==
  UNION {{batches[xo[1]][xo[2]].batch_[p] :
            p \in Filled(batches[xo[1]][xo[2]])} :
         xo \in (DOMAIN batches) \X (1..3)}

\* C7: for a one-dimensional PDE each kronmult_to_batch_sets call enqueues
\* exactly one gemm, in operand set 0, the only set there is; its output
\* operand is the view of y (the triple's slice of the reduction space), its
\* inputs are the operator view and the view of x, and no pointer into the
\* intermediate workspace is held.
C7_OneDimension ==
  (Building /\ pde.num_dims = 1) =>
    /\ aborted = ""
    /\ Len(batches) = 1
    /\ OperandsAgree(batches[1])
    /\ Cardinality(GemmSlots(batches[1])) = Len(kcalls)
    /\ \A a \in DOMAIN kcalls :
         LET slot == kcalls[a].batch_offset
         IN /\ kcalls[a].work = <<>>
            /\ at(batches[1][3], slot)
                 = Ptr("reduction_space", kcalls[a].y.off)
            /\ kcalls[a].y.off = ipow(pde.degree, 1) * slot
            /\ at(batches[1][2], slot) = Ptr("batch_input", kcalls[a].x.off)
            /\ at(batches[1][1], slot) = At0(kcalls[a].A, 0).data
    /\ \A q \in Pointers : q.buf # "batch_intermediate"

\* a one-dimensional PDE of degree >= 2 batched over several triples
C7_Witness ==
  /\ pc = "done"
  /\ aborted = ""
  /\ pde.num_dims = 1
  /\ pde.degree >= 2
  /\ Len(kcalls) >= 2

\* the view is a degree x degree window inside coefficient(k, d)
WindowOf(v, k, d) ==
  /\ v.data.buf = "coefficient"
  /\ v.data.id = <<k, d>>
  /\ v.nrows = pde.degree
  /\ v.ncols = pde.degree
  /\ v.stride = coefficient_side(pde)
  /\ (v.data.off % v.stride) + v.nrows <= coefficient_side(pde)
  /\ (v.data.off \div v.stride) + v.ncols <= coefficient_side(pde)

LastSet == batches[pde.num_dims]

\* the pointer to the first element of a vector view
Start(v) == Ptr(v.buf, v.off)

\* C17: for a triple in a PDE with D >= 2, the single gemm enqueued for the
\* last dimension D-1 takes its input operand from work[(D-1) mod 2] and
\* writes its output to y.
C17_LastReadsOddParity ==
  (Building /\ pde.num_dims >= 2 /\ aborted = "") =>
    \A a \in DOMAIN kcalls :
      LET slot == kcalls[a].batch_offset
          w == (pde.num_dims - 1) % 2
      IN /\ w < Len(kcalls[a].work)
         /\ at(LastSet[1], slot) = Start(At0(kcalls[a].work, w))
         /\ at(LastSet[3], slot) = Start(kcalls[a].y)

\* C17, amended: for a triple in a PDE with D >= 2, the single gemm
\* enqueued for the last dimension D-1 takes its input operand from
\* work[D mod 2], which is work[(D-2) mod 2], the workspace the gemms of
\* dimension D-2 wrote, and writes its output to y; the triple has one gemm
\* slot at the last dimension.
C17_LastReadsWhatWasWritten ==
  (Building /\ pde.num_dims >= 2 /\ aborted = "") =>
    /\ Cardinality(GemmSlots(LastSet)) = Len(kcalls)
    /\ \A a \in DOMAIN kcalls :
         LET slot == kcalls[a].batch_offset
             w == pde.num_dims % 2
         IN /\ w = (pde.num_dims - 2) % 2
            /\ w < Len(kcalls[a].work)
            /\ at(LastSet[1], slot) = Start(At0(kcalls[a].work, w))
            /\ at(LastSet[3], slot) = Start(kcalls[a].y)
            /\ \E p \in Filled(batches[pde.num_dims - 1][3]) :
                 at(batches[pde.num_dims - 1][3], p) = at(LastSet[1], slot)

\* three dimensions: the last gemm of the second triple reads the second
\* workspace of that triple
C17_Witness ==
  /\ pc = "done"
  /\ aborted = ""
  /\ pde.num_dims = 3
  /\ pde.degree = 2
  /\ Len(kcalls) >= 2
  /\ Len(kcalls[2].work) = 2
  /\ at(LastSet[1], kcalls[2].batch_offset) = Start(kcalls[2].work[2])
  /\ kcalls[2].work[2].off > kcalls[2].work[1].off

\* the elements a gemm touches through the pointer a batch holds at a slot:
\* nrows x ncols elements, columns stride apart
GemmCells(b, slot) ==
  {<<at(b, slot).buf, at(b, slot).off + c * b.stride + r>> :
     r \in 0..(b.nrows - 1), c \in 0..(b.ncols - 1)}

\* the elements of a vector view
ViewCells(v) == {<<v.buf, v.off + e>> : e \in 0..(v.size - 1)}

\* the gemm slots of the triple of call a at dimension d
TripleSlots(a, d) ==
  LET n == compute_batch_size(pde.degree, pde.num_dims, d)
  IN {kcalls[a].batch_offset * n + g : g \in 0..(n - 1)}

\* the operand holding the data a gemm of dimension d reads: kron_base
\* multiplies A * x, the other dimensions x * A^T
DataOperand(d) == IF d = 0 THEN 2 ELSE 1
OperatorOperand(d) == IF d = 0 THEN 1 ELSE 2

\* what the gemms of the triple of call a read and write at dimension d
Reads(a, d) ==
  UNION {GemmCells(batches[d + 1][DataOperand(d)], slot) :
           slot \in TripleSlots(a, d)}
Writes(a, d) ==
  UNION {GemmCells(batches[d + 1][3], slot) : slot \in TripleSlots(a, d)}

\* C18: within one triple of a PDE with D >= 2, the gemms of every
\* dimension d >= 1 read exactly the region the gemms of dimension d-1
\* wrote: dimension 0 writes work[0], intermediate dimension d reads
\* work[(d-1) mod 2] and writes work[d mod 2], dimension D-1 reads what
\* dimension D-2 wrote and writes y; so batches dispatched in the order
\* 0, 1, ..., D-1 never read a region the preceding dimension has not
\* written, and no gemm's output region overlaps its own input regions.
C18_ReadsWhatWasWritten ==
  (Building /\ pde.num_dims >= 2 /\ aborted = "") =>
    \A a \in DOMAIN kcalls :
      LET work == kcalls[a].work
          D == pde.num_dims
      IN /\ Writes(a, 0) = ViewCells(At0(work, 0))
         /\ \A d \in 1..(D - 2) :
              /\ Reads(a, d) = ViewCells(At0(work, (d - 1) % 2))
              /\ Writes(a, d) = ViewCells(At0(work, d % 2))
         /\ Writes(a, D - 1) = ViewCells(kcalls[a].y)
         /\ \A d \in 1..(D - 1) :
              /\ Reads(a, d) = Writes(a, d - 1)
              /\ Reads(a, d) # {}
         /\ \A d \in 0..(D - 1) : \A slot \in TripleSlots(a, d) :
              /\ GemmCells(batches[d + 1][3], slot)
                   \cap GemmCells(batches[d + 1][DataOperand(d)], slot) = {}
              /\ GemmCells(batches[d + 1][3], slot)
                   \cap GemmCells(batches[d + 1][OperatorOperand(d)], slot) = {}

\* three dimensions of degree 2: the two gemms of dimension 1 of the second
\* triple read the eight elements dimension 0 wrote
C18_Witness ==
  /\ pc = "done"
  /\ aborted = ""
  /\ pde.num_dims = 3
  /\ pde.degree = 2
  /\ Len(kcalls) >= 2
  /\ Cardinality(TripleSlots(2, 1)) = 2
  /\ Cardinality(Reads(2, 1)) = 8
  /\ Reads(2, 1) = Writes(2, 0)
  /\ Reads(2, 2) = Writes(2, 1)

\* the gemm slots assigned over all operand sets
TotalGemmSlots ==
  SumSeq([x \in 1..Len(batches) |-> Cardinality(GemmSlots(batches[x]))])

\* C19: the Kronecker apply for one triple is realised by exactly D gemms
\* in a D-dimensional PDE: the gemm slots kronmult_to_batch_sets assigns
\* for one triple, summed over all operand sets, are D.
C19_ExactlyDGemms ==
  (Building /\ aborted = "") =>
    TotalGemmSlots = Len(kcalls) * pde.num_dims

\* gemms of one triple: one for D = 1, and for D >= 2 one at dimension 0,
\* degree^(D-1-d) at every dimension d in 1..D-2 and one at dimension D-1
GemmsPerTriple(degree, num_dims) ==
  IF num_dims = 1 THEN 1
  ELSE 2 + SumSeq([d \in 1..(num_dims - 2) |->
                     ipow(degree, num_dims - 1 - d)])

\* C19, amended: the Kronecker apply for one triple is realised by D
\* batched gemm stages, one operand set per dimension, and by
\* 2 + degree^(D-2) + ... + degree gemms for D >= 2 (one gemm for D = 1):
\* the gemm slots assigned for one triple, summed over all operand sets,
\* are that many; they are D exactly when D <= 2 or degree = 1.
C19_GemmsPerTriple ==
  Building =>
    /\ aborted = ""
    /\ Len(batches) = pde.num_dims
    /\ TotalGemmSlots = Len(kcalls) * GemmsPerTriple(pde.degree, pde.num_dims)
    /\ GemmsPerTriple(pde.degree, pde.num_dims) = pde.num_dims
         <=> (pde.num_dims <= 2 \/ pde.degree = 1)

\* three dimensions of degree 2: four gemms for each of several triples
C19_Witness ==
  /\ pc = "done"
  /\ aborted = ""
  /\ pde.num_dims = 3
  /\ pde.degree = 2
  /\ Len(kcalls) >= 2
  /\ TotalGemmSlots = 4 * Len(kcalls)

\* the intermediate dimensions of the PDE
Intermediate == 1..(pde.num_dims - 2)

\* the gemms of the triple of call a at dimension d have the count given
\* and cover the work vectors they read and write exactly once
CoversOnce(a, d, count) ==
  LET set == batches[d + 1]
      work == kcalls[a].work
  IN /\ Cardinality(TripleSlots(a, d)) = count
     /\ TripleSlots(a, d) \subseteq GemmSlots(set)
     /\ Reads(a, d) = ViewCells(At0(work, (d - 1) % 2))
     /\ Writes(a, d) = ViewCells(At0(work, d % 2))
     /\ Cardinality(Reads(a, d)) = ipow(pde.degree, pde.num_dims)
     /\ \A s1, s2 \in TripleSlots(a, d) :
          s1 # s2 =>
            /\ GemmCells(set[1], s1) \cap GemmCells(set[1], s2) = {}
            /\ GemmCells(set[3], s1) \cap GemmCells(set[3], s2) = {}

\* C20: for every intermediate dimension d in 1..D-2, each of the
\* degree^(D-1-d) gemms enqueued per triple has left operand and output of
\* shape (degree^(d+1), degree) and a transposed (degree, degree) right
\* operand, and these gemms together cover the degree^D-element work vector
\* exactly once.
C20_TallIntermediateShapes ==
  (Building /\ aborted = "") =>
    \A d \in Intermediate :
      LET set == batches[d + 1]
      IN /\ set[1].nrows = ipow(pde.degree, d + 1)
         /\ set[1].ncols = pde.degree
         /\ set[3].nrows = ipow(pde.degree, d + 1)
         /\ set[3].ncols = pde.degree
         /\ set[2].nrows = pde.degree
         /\ set[2].ncols = pde.degree
         /\ set[2].do_trans
         /\ \A a \in DOMAIN kcalls :
              CoversOnce(a, d, ipow(pde.degree, pde.num_dims - 1 - d))

\* C20, amended: for every intermediate dimension d in 1..D-2, each of the
\* degree^(D-1-d) gemms enqueued per triple has left operand and output of
\* shape (degree^d, degree), that is degree^(d+1) elements, and a
\* transposed (degree, degree) right operand, and these gemms together
\* cover the degree^D-element work vector exactly once.
C20_IntermediateShapes ==
  Building =>
    /\ aborted = ""
    /\ \A d \in Intermediate :
         LET set == batches[d + 1]
         IN /\ set[1].nrows = ipow(pde.degree, d)
            /\ set[1].ncols = pde.degree
            /\ set[1].stride = set[1].nrows
            /\ ~set[1].do_trans
            /\ set[3].nrows = ipow(pde.degree, d)
            /\ set[3].ncols = pde.degree
            /\ set[3].stride = set[3].nrows
            /\ set[2].nrows = pde.degree
            /\ set[2].ncols = pde.degree
            /\ set[2].do_trans
            /\ \A a \in DOMAIN kcalls :
                 /\ CoversOnce(a, d, ipow(pde.degree, pde.num_dims - 1 - d))
                 /\ \A slot \in TripleSlots(a, d) :
                      Cardinality(GemmCells(set[1], slot))
                        = ipow(pde.degree, d + 1)

\* six dimensions of degree 4: at dimension 2 the 64 gemms of the triple
\* have 16 x 4 left operands and cover the 4096 elements
C20_Witness ==
  /\ pc = "done"
  /\ aborted = ""
  /\ pde.num_dims = 6
  /\ pde.degree = 4
  /\ Len(kcalls) = 1
  /\ batches[3][1].nrows = 16
  /\ batches[3][1].ncols = 4
  /\ Cardinality(TripleSlots(1, 2)) = 64
  /\ Cardinality(Reads(1, 2)) = 4096

\* the batch_input segment the x operand of call a lies in
Segment(a) == kcalls[a].x.off \div elem_size(pde)

\* C21: for every triple (i, j, k) of a chunk the x operand enqueued is
\* the elem_size-long batch_input segment of connected element j: triples
\* with the same j reference the same segment whatever their i and k,
\* triples with different j reference different segments, and every
\* segment index is smaller than the number of distinct connected
\* elements of the chunk.
C21_SegmentPerConnected ==
  Building =>
    /\ \A a \in DOMAIN kcalls :
         /\ kcalls[a].x.buf = "batch_input"
         /\ kcalls[a].x.size = elem_size(pde)
         /\ kcalls[a].x.off = Segment(a) * elem_size(pde)
         /\ Segment(a) >= 0
         /\ Segment(a) < num_inputs_in_chunk(chunk)
         /\ kcalls[a].x.off + kcalls[a].x.size <= workspace.batch_input
         /\ aborted = "" =>
              at(batches[1][2], kcalls[a].batch_offset) = Start(kcalls[a].x)
    /\ \A a, b \in DOMAIN kcalls :
         (kcalls[a].j = kcalls[b].j) <=> (Segment(a) = Segment(b))

\* a chunk of two rows: the same connected element is met in both rows,
\* with different terms, in one segment, next to another segment
C21_Witness ==
  /\ pc = "done"
  /\ aborted = ""
  /\ pde.num_terms = 2
  /\ pde.degree = 2
  /\ \E a, b, other \in DOMAIN kcalls :
       /\ kcalls[a].i # kcalls[b].i
       /\ kcalls[a].k # kcalls[b].k
       /\ kcalls[a].j = kcalls[b].j
       /\ Segment(a) = Segment(b)
       /\ Segment(other) # Segment(a)

\* idx1d of element e of the table in dimension d, from its level and cell
Idx1d(e, d) ==
  LET coords == inverse(table, e)
      L == coords[d + 1]
      C == coords[d + 1 + pde.num_dims]
  IN C + (IF L = 0 THEN 0 ELSE ipow(2, L - 1))

\* the operator views of call a that look into coefficient(k, d)
ViewsInto(a, d) ==
  {x \in DOMAIN kcalls[a].A :
     kcalls[a].A[x].data.id = <<kcalls[a].k, d>>}

\* C22: for every element pair (i, j), term k and dimension d the operator
\* view build_batches constructs is the window rows
\* [row_d*degree, (row_d+1)*degree) x columns [col_d*degree,
\* (col_d+1)*degree) of coefficient(k, d), with row_d = idx1d(level_i[d],
\* cell_i[d]) and col_d = idx1d(level_j[d], cell_j[d]), and the window lies
\* entirely inside the coefficient matrix of side degree * 2^level.
C22_OperatorWindow ==
  Building =>
    \A a \in DOMAIN kcalls : \A d \in 0..(pde.num_dims - 1) :
      LET row_d == Idx1d(kcalls[a].i, d)
          col_d == Idx1d(kcalls[a].j, d)
          side == pde.degree * ipow(2, pde.level)
      IN /\ Cardinality(ViewsInto(a, d)) = 1
         /\ \A x \in ViewsInto(a, d) :
              LET v == kcalls[a].A[x]
              IN /\ v.data.buf = "coefficient"
                 /\ v.nrows = pde.degree
                 /\ v.ncols = pde.degree
                 /\ v.stride = side
                 /\ v.data.off = (col_d * pde.degree) * side
                                   + row_d * pde.degree
         /\ (row_d + 1) * pde.degree <= side
         /\ (col_d + 1) * pde.degree <= side

\* two dimensions at level 1, degree 2: a triple whose window begins at
\* row 2 in one dimension and at column 2 in the other
C22_Witness ==
  /\ pc = "done"
  /\ aborted = ""
  /\ pde.num_dims = 2
  /\ pde.degree = 2
  /\ pde.level = 1
  /\ \E a \in DOMAIN kcalls : \E d, e \in 0..1 :
       /\ d # e
       /\ Idx1d(kcalls[a].i, d) = 1
       /\ Idx1d(kcalls[a].j, e) = 1
       /\ \E x \in ViewsInto(a, d) : kcalls[a].A[x].data.off % 4 = 2
       /\ \E x \in ViewsInto(a, e) : kcalls[a].A[x].data.off \div 4 = 2

\* couplings of the chunk that precede (i, j): rows in order, then columns
CouplingsBefore(i, j) ==
  Cardinality({cp \in couplings_of(chunk) :
                 cp[1] < i \/ (cp[1] = i /\ cp[2] < j)})

\* the calls made for row i, and for the coupling (i, j)
CallsOfRow(i) == {a \in DOMAIN kcalls : kcalls[a].i = i}
CallsOfCoupling(i, j) == {a \in CallsOfRow(i) : kcalls[a].j = j}

\* the elements of reduction_space the calls of a set write
OutputCells(calls) == UNION {ViewCells(kcalls[a].y) : a \in calls}

\* a set of reduction_space elements that is one block of the length given
IsBlock(cells, from, length) ==
  cells = {<<"reduction_space", from + e>> : e \in 0..(length - 1)}

\* C23: the output region of triple (i, j, k) starts at offset
\* elem_size * kron_index of reduction_space, with kron_index = k +
\* total_prev_couplings * T, where total_prev_couplings counts the chunk's
\* couplings preceding (i, j) in row-major order; the T partial outputs of
\* one coupling are contiguous, and the T * connected_i partial outputs of
\* one row i form one contiguous block that overlaps no other row's block.
C23_OutputLayout ==
  Building =>
    /\ \A a \in DOMAIN kcalls :
         /\ kcalls[a].y.buf = "reduction_space"
         /\ kcalls[a].y.size = elem_size(pde)
         /\ kcalls[a].y.off
              = elem_size(pde)
                  * (kcalls[a].k
                       + CouplingsBefore(kcalls[a].i, kcalls[a].j)
                           * pde.num_terms)
    /\ (pc = "done" /\ aborted = "") =>
         /\ \A cp \in couplings_of(chunk) :
              IsBlock(OutputCells(CallsOfCoupling(cp[1], cp[2])),
                      elem_size(pde) * pde.num_terms
                        * CouplingsBefore(cp[1], cp[2]),
                      elem_size(pde) * pde.num_terms)
         /\ \A i \in DOMAIN chunk :
              IsBlock(OutputCells(CallsOfRow(i)),
                      elem_size(pde) * pde.num_terms
                        * CouplingsBefore(i, chunk[i].start),
                      elem_size(pde) * pde.num_terms
                        * (chunk[i].stop - chunk[i].start + 1))
         /\ \A i, r \in DOMAIN chunk :
              i # r => OutputCells(CallsOfRow(i))
                         \cap OutputCells(CallsOfRow(r)) = {}

\* a chunk of two rows batched with two terms: the second row's block
\* begins where the first row's block ends
C23_Witness ==
  /\ pc = "done"
  /\ aborted = ""
  /\ pde.num_terms = 2
  /\ pde.degree = 2
  /\ Cardinality(DOMAIN chunk) = 2
  /\ \E i \in DOMAIN chunk :
       /\ i + 1 \in DOMAIN chunk
       /\ chunk[i].stop > chunk[i].start
       /\ Cardinality(OutputCells(CallsOfRow(i)))
            = 4 * elem_size(pde)
       /\ <<"reduction_space", 4 * elem_size(pde)>>
            \in OutputCells(CallsOfRow(i + 1))

Within(v, size) == v.off >= 0 /\ v.size >= 1 /\ v.off + v.size <= size

C29_AllocatedSetsMultiply ==
  (pc = "loop" /\ kcalls = <<>>) =>
    /\ batches = allocate_batches(pde, num_elements_in_chunk(chunk))
    /\ Len(batches) = pde.num_dims
    /\ \A d \in DOMAIN batches :
         LET a == batches[d][1]
             b == batches[d][2]
             c == batches[d][3]
         IN /\ batched_gemm_check(a, b, c) = OK
            /\ a.num_entries = b.num_entries
            /\ b.num_entries = c.num_entries
            /\ ~c.do_trans
            /\ cols_op(a) = rows_op(b)
            /\ c.nrows = rows_op(a)
            /\ c.ncols = cols_op(b)
            /\ \A operand \in 1..3 :
                 batch_check(batches[d][operand].num_entries,
                             batches[d][operand].nrows,
                             batches[d][operand].ncols,
                             batches[d][operand].stride) = OK

\* allocate_batches has returned the three operand sets of a PDE of three
\* dimensions and degree 2 for three elements, the last two with a
\* transposed right operand
C29_Witness ==
  /\ pc = "loop"
  /\ kcalls = <<>>
  /\ pde.num_dims = 3
  /\ pde.degree = 2
  /\ num_elements_in_chunk(chunk) = 3
  /\ Len(batches) = 3
  /\ batches[1][2].ncols = 4
  /\ batches[2][2].do_trans
  /\ batches[3][1].nrows = 4

\* C27: after build_batches returns for a chunk, every batch of every
\* dimension's operand set (a, b and c) is completely filled: is_filled()
\* is true of it and each allocated slot was assigned exactly once, by
\* exactly one triple and with no assertion of assign_entry fired.
C27_FilledAtReturn ==
  pc = "done" =>
    /\ aborted = ""
    /\ \A d \in 0..(pde.num_dims - 1) :
         /\ \A operand \in 1..3 : is_filled(batches[d + 1][operand])
         /\ \A p \in Positions(batches[d + 1][1]) :
              Cardinality({n \in DOMAIN kcalls :
                             p \in TripleSlots(n, d)}) = 1

\* build_batches has returned for three dimensions of degree 2, two terms
\* and a chunk of a whole row and a part of the next
C27_Witness ==
  /\ pc = "done"
  /\ pde.num_dims = 3
  /\ pde.degree = 2
  /\ pde.num_terms = 2
  /\ Cardinality(DOMAIN chunk) = 2
  /\ num_elements_in_chunk(chunk) = 3
  /\ is_filled(batches[2][3])

\* the slots of operand set d the calls of row i have assigned
SlotsOfRow(i, d) ==
  UNION {TripleSlots(a, d) : a \in CallsOfRow(i)}

\* C25: if the per-row-element iterations of the build_batches loop run
\* concurrently, in any interleaving, no two iterations assign the same
\* slot of any batch (each row element owns a disjoint range of slots), so
\* the assertion that the slot is unassigned never fires, and the batches
\* that result are those of the sequential order.
C25_RowsOwnSlots ==
  Building =>
    /\ aborted = ""
    /\ \A i, r \in DOMAIN chunk : \A d \in 0..(pde.num_dims - 1) :
         i # r => SlotsOfRow(i, d) \cap SlotsOfRow(r, d) = {}
    /\ \A d \in 0..(pde.num_dims - 1) :
         /\ OperandsAgree(batches[d + 1])
         /\ GemmSlots(batches[d + 1])
              = UNION {SlotsOfRow(i, d) : i \in DOMAIN chunk}
    /\ pc = "done" =>
         batches = sequential_batches(pde, table, chunk,
                     allocate_batches(pde, num_elements_in_chunk(chunk)), 1)

\* the iterations of two rows are under way at once: a later row has made
\* its first call while an earlier row has made one call and has one to make
C25_Witness ==
  /\ pc = "loop"
  /\ aborted = ""
  /\ pde.num_dims = 2
  /\ pde.num_terms = 2
  /\ \E i, r \in DOMAIN chunk :
       /\ i < r
       /\ Len(calls_of_row(i)) = 1
       /\ Len(calls_of_row(r)) = 1
       /\ Len(row_triples(chunk, pde.num_terms, r)) = 2

\* ------------------------------------------------------------------------
\* PDE descriptors and the PDE factory
\* ------------------------------------------------------------------------
\* enum class PDE_opts: the enumerators in declaration order; the value of
\* an enumerator is its position, counted from 0
PDE_opts ==
  << "continuity_1", "continuity_2", "continuity_3", "continuity_6",
     "fokkerplanck_1d_4p1a", "fokkerplanck_1d_4p2", "fokkerplanck_1d_4p3",
     "fokkerplanck_1d_4p4", "fokkerplanck_1d_4p5",
     "fokkerplanck_2d_complete", "impurity_3d_A",
     "vlasov4", "vlasov43", "vlasov5", "vlasov7", "vlasov8", "pde_user" >>

\* the value of an enumerator
opt_value(name) == CHOOSE v \in 0..(Len(PDE_opts) - 1) : PDE_opts[v + 1] = name

\* pde_mapping: selection string -> PDE_opts value
pde_mapping ==
  [name \in {"continuity_1", "continuity_2", "continuity_3", "continuity_6",
             "fokkerplanck_1d_4p1a", "fokkerplanck_1d_4p2",
             "fokkerplanck_1d_4p3", "fokkerplanck_1d_4p4",
             "fokkerplanck_1d_4p5", "fokkerplanck_2d_complete",
             "impurity_3d_A", "pde_user", "vlasov4", "vlasov7", "vlasov8",
             "vlasov5", "vlasov43"} |-> opt_value(name)]

\* the term vectors of PDE_continuity_3d: terms0_, terms1_, terms2_
continuity_3d_terms ==
  << <<"term0_dim0_", "I_", "I_">>,
     <<"I_", "term1_dim1_", "I_">>,
     <<"I_", "I_", "term2_dim2_">> >>

\* the term vectors PDE_impurity_3d_A collects in terms_
impurity_3d_A_terms ==
  << <<"c1_term_p", "I_", "I_">>,
     <<"c2_term_p", "I_", "I_">>,
     <<"c3_term_p", "c3_term_z", "I_">>,
     <<"e1_term_p", "e1_term_z", "I_">>,
     <<"e2_term_p", "e2_term_z", "I_">>,
     <<"r1_term_p", "r1_term_z", "I_">>,
     <<"r2_term_p", "r2_term_z", "I_">> >>

\* what a descriptor class hands to the PDE<P> constructor; the classes
\* whose headers are not part of the sources carry no data here
Descriptor(class, level, degree, num_dims, num_terms, terms) ==
  [class |-> class, level |-> level, degree |-> degree,
   num_dims |-> num_dims, num_terms |-> num_terms, terms |-> terms]

Undescribed(class, level, degree) ==
  Descriptor(class, level, degree, 0, 0, <<>>)

PDE_continuity_3d(level, degree) ==
  Descriptor("PDE_continuity_3d", level, degree, 3, 3, continuity_3d_terms)

PDE_impurity_3d_A(level, degree) ==
  Descriptor("PDE_impurity_3d_A", level, degree, 3, 8, impurity_3d_A_terms)

NoPDE == Undescribed("", 0, 0)

\* the outcome of a make_PDE call
Made(descriptor, text, code) ==
  [made |-> descriptor, out |-> text, status |-> code]

\* exit(code): the exit status the parent sees is code modulo 256
exit_status(code) == code % 256

RUNNING == -1

\* faulty variant: the choices not implemented yet are refused like an
\* invalid choice
make_PDE_strict(value, level, degree) ==
  IF value \in 0..(Len(PDE_opts) - 1)
       /\ PDE_opts[value + 1]
            \notin {"vlasov4", "vlasov43", "vlasov5", "vlasov7", "vlasov8",
                    "pde_user"}
    THEN Made(Undescribed(PDE_opts[value + 1], level, degree), "", RUNNING)
    ELSE Made(NoPDE, "Invalid pde choice", exit_status(-1))

\* make_PDE: the switch over the choice
make_PDE(value, level, degree) ==
  LET opt == IF value \in 0..(Len(PDE_opts) - 1)
               THEN PDE_opts[value + 1] ELSE "default"
      made_of(descriptor) == Made(descriptor, "", RUNNING)
  IN CASE opt = "continuity_1" ->
            made_of(Undescribed("PDE_continuity_1d", level, degree))
       [] opt = "continuity_2" ->
            made_of(Undescribed("PDE_continuity_2d", level, degree))
       [] opt = "continuity_3" -> made_of(PDE_continuity_3d(level, degree))
       [] opt = "continuity_6" ->
            made_of(Undescribed("PDE_continuity_6d", level, degree))
       [] opt = "fokkerplanck_1d_4p1a" ->
            made_of(Undescribed("PDE_fokkerplanck_1d_4p1a", level, degree))
       [] opt = "fokkerplanck_1d_4p2" ->
            made_of(Undescribed("PDE_fokkerplanck_1d_4p2", level, degree))
       [] opt = "fokkerplanck_1d_4p3" ->
            made_of(Undescribed("PDE_fokkerplanck_1d_4p3", level, degree))
       [] opt = "fokkerplanck_1d_4p4" ->
            made_of(Undescribed("PDE_fokkerplanck_1d_4p4", level, degree))
       [] opt = "fokkerplanck_1d_4p5" ->
            made_of(Undescribed("PDE_fokkerplanck_1d_4p5", level, degree))
       [] opt = "fokkerplanck_2d_complete" ->
            made_of(Undescribed("PDE_fokkerplanck_2d_complete", level,
                                degree))
       [] opt = "impurity_3d_A" -> made_of(PDE_impurity_3d_A(level, degree))
       [] opt \in {"vlasov4", "vlasov43", "vlasov5", "vlasov7", "vlasov8",
                   "pde_user"} ->
            made_of(Undescribed("PDE_continuity_1d", level, degree))
       [] OTHER -> Made(NoPDE, "Invalid pde choice", exit_status(-1))

\* the values make_PDE is called with: every enumerator, and the values
\* next to the enumeration on both sides
InputChoices == (-1)..Len(PDE_opts)
InputPdeLevels == (-1)..MaxPdeLevel
InputPdeDegrees == (-1)..MaxPdeDegree

NOT_CALLED == -2

PdeInit ==
  /\ choice = NOT_CALLED
  /\ made = NoPDE
  /\ out = ""
  /\ status = RUNNING

\* make_PDE called with the value a selection string maps to
MakeNamedPDE ==
  /\ choice = NOT_CALLED
  /\ \E name \in DOMAIN pde_mapping, level \in InputPdeLevels,
        degree \in InputPdeDegrees :
       LET res == make_PDE(pde_mapping[name], level, degree)
       IN /\ choice' = pde_mapping[name]
          /\ made' = res.made
          /\ out' = res.out
          /\ status' = res.status

\* make_PDE called with a value cast to PDE_opts
MakeCastPDE ==
  /\ choice = NOT_CALLED
  /\ \E value \in InputChoices, level \in InputPdeLevels,
        degree \in InputPdeDegrees :
       LET res == make_PDE(value, level, degree)
       IN /\ choice' = value
          /\ made' = res.made
          /\ out' = res.out
          /\ status' = res.status

\* ------------------------------------------------------------------------
\* properties of the PDE descriptors and of the factory
\* ------------------------------------------------------------------------
Described == made.terms # <<>>

\* C11: for every PDE descriptor the declared number of terms equals the
\* number of term vectors collected in its term set, and every term vector
\* has one entry per dimension.
C11_TermsMatchDeclared ==
  Described =>
    /\ made.num_terms = Len(made.terms)
    /\ \A k \in DOMAIN made.terms : Len(made.terms[k]) = made.num_dims

\* the selection strings that fall back to continuity_1
FallBack == {"vlasov4", "vlasov43", "vlasov5", "vlasov7", "vlasov8",
             "pde_user"}

ClassOf(name) ==
  CASE name = "continuity_1" -> "PDE_continuity_1d"
    [] name = "continuity_2" -> "PDE_continuity_2d"
    [] name = "continuity_3" -> "PDE_continuity_3d"
    [] name = "continuity_6" -> "PDE_continuity_6d"
    [] OTHER -> "PDE_" \o name

\* C12: make_PDE returns a continuity_1d descriptor for vlasov4, vlasov43,
\* vlasov5, vlasov7, vlasov8 and pde_user; for every other choice named in
\* pde_mapping it returns the descriptor class of that PDE, built with the
\* level and degree given; only a value outside the enumeration prints
\* "Invalid pde choice" and ends the process with a non-zero exit status.
C12_FactoryChoices ==
  choice # NOT_CALLED =>
    /\ \A name \in DOMAIN pde_mapping :
         choice = pde_mapping[name] =>
           /\ status = RUNNING
           /\ out = ""
           /\ made.class = IF name \in FallBack THEN "PDE_continuity_1d"
                           ELSE ClassOf(name)
    /\ (\E name \in DOMAIN pde_mapping : choice = pde_mapping[name])
         <=> choice \in 0..(Len(PDE_opts) - 1)
    /\ choice \notin 0..(Len(PDE_opts) - 1) <=>
         (out = "Invalid pde choice" /\ status # RUNNING)
    /\ status # RUNNING => (status # 0 /\ made = NoPDE)

\* vlasov7 was asked for and a continuity_1d descriptor came back
C12_Witness ==
  /\ choice = opt_value("vlasov7")
  /\ made.class = "PDE_continuity_1d"
  /\ made.level = MaxPdeLevel
  /\ status = RUNNING

\* ------------------------------------------------------------------------
\* fk::matrix, fk::vector: assignment from a std::vector, dump_to_octave
\* ------------------------------------------------------------------------
\* fk::matrix(int M, int N): M * N elements, zero-initialised
matrix(M, N) ==
  [nrows_ |-> M, ncols_ |-> N, data_ |-> [x \in 1..(M * N) |-> 0]]

\* fk::vector(int size): size elements, zero-initialised
vector(size) == [x \in 1..size |-> 0]

\* data(i, j): the offset of element (i, j) in data_, column-major
data(m, i, j) == j * m.nrows_ + i

\* operator()(i, j) const: the element at data(i, j)
matrix_at(m, i, j) == m.data_[data(m, i, j) + 1]

\* the assertion of operator=(std::vector<P> const &)
assign_vector_check(m, v) ==
  IF m.nrows_ * m.ncols_ = Len(v) THEN OK
  ELSE "nrows() * ncols() == static_cast<int>(v.size())"

\* operator=(std::vector<P> const &): for every column j and row i,
\* (*this)(i, j) = v[j + i * ncols()]
assign_vector(m, v) ==
  [m EXCEPT !.data_ =
     [x \in 1..(m.nrows_ * m.ncols_) |->
        LET i == (x - 1) % m.nrows_
            j == (x - 1) \div m.nrows_
        IN v[j + i * m.ncols_ + 1]]]

\* std::cout at program start
STDOUT == [rdbuf |-> "stdout", state |-> "good"]

\* no dump has been made: there is no ofstream
NO_FILE == [filename |-> "", is_open |-> FALSE, text |-> ""]

\* std::ofstream ofile(filename): the file is open or the open failed
ofstream(filename, opens) ==
  [filename |-> filename, is_open |-> opens, text |-> ""]

\* std::cout.rdbuf(sb): the stream takes the buffer and its state is cleared
rdbuf(stream, sb) == [stream EXCEPT !.rdbuf = sb, !.state = "good"]

digits == <<"0", "1", "2", "3", "4", "5", "6", "7", "8", "9">>

\* operator<< of a whole number under setprecision(12): its decimal digits
RECURSIVE format(_)
format(x) ==
  IF x < 10 THEN digits[x + 1]
  ELSE format(x \div 10) \o digits[(x % 10) + 1]

\* std::cout << token on the streams io = [cout, ofile, terminal]: nothing
\* happens on a stream that is not good; a file buffer that is not open
\* takes nothing and the stream goes bad
insert(io, token) ==
  IF io.cout.state # "good" THEN io
  ELSE IF io.cout.rdbuf = "stdout"
    THEN [io EXCEPT !.terminal = @ \o token]
  ELSE IF io.ofile.is_open
    THEN [io EXCEPT !.ofile.text = @ \o token]
  ELSE [io EXCEPT !.cout.state = "bad"]

RECURSIVE insert_all(_, _, _)
insert_all(io, tokens, x) ==
  IF x > Len(tokens) THEN io
  ELSE insert_all(insert(io, tokens[x]), tokens, x + 1)

\* the tokens of fk::vector::dump_to_octave: every element, then a blank
RECURSIVE vector_tokens(_, _)
vector_tokens(v, x) ==
  IF x > Len(v) THEN <<>>
  ELSE <<format(v[x]), " ">> \o vector_tokens(v, x + 1)

\* the tokens of fk::matrix::dump_to_octave: row by row, every element and
\* a blank, and a newline after each row
RECURSIVE matrix_tokens(_, _, _)
matrix_tokens(m, i, j) ==
  IF i >= m.nrows_ THEN <<>>
  ELSE IF j >= m.ncols_ THEN <<"\n">> \o matrix_tokens(m, i + 1, 0)
  ELSE <<format(matrix_at(m, i, j)), " ">> \o matrix_tokens(m, i, j + 1)

\* dump_to_octave: open the file, point std::cout at the file's buffer,
\* write the tokens, point std::cout back at the buffer it had
dump_to_octave(io, tokens, filename, opens) ==
  LET file == ofstream(filename, opens)
      coutbuf == io.cout.rdbuf
      redirected == [io EXCEPT !.ofile = file,
                               !.cout = rdbuf(io.cout, "ofile")]
      written == insert_all(redirected, tokens, 1)
  IN [written EXCEPT !.cout = rdbuf(written.cout, coutbuf)]

\* the std::vector values assigned: distinct elements, of the length of the
\* matrix and of the lengths next to it
InputVectors(m) ==
  LET n == m.nrows_ * m.ncols_
  IN {[x \in 1..len |-> fill + x] :
        fill \in 0..MaxFill, len \in {n - 1, n, n + 1}}

Filenames == {"vector.dat", "matrix.dat"}

TensorInit ==
  /\ mat \in {matrix(M, N) : M \in 1..MaxRows, N \in 1..MaxCols}
  /\ vec \in {vector(size) : size \in 0..MaxRows}
  /\ source = <<>>
  /\ cout = STDOUT
  /\ ofile = NO_FILE
  /\ terminal = ""
  /\ aborted = ""

\* mat = v for a std::vector v
MatrixAssign ==
  /\ aborted = ""
  /\ \E v \in InputVectors(mat) :
       LET chk == assign_vector_check(mat, v)
       IN IF chk = OK
            THEN /\ mat' = assign_vector(mat, v)
                 /\ source' = v
                 /\ UNCHANGED <<aborted, terminal>>
            ELSE /\ aborted' = chk
                 /\ terminal' = terminal \o "Assertion `" \o chk
                                  \o "' failed."
                 /\ UNCHANGED <<mat, source>>
  /\ UNCHANGED <<vec, cout, ofile>>

\* vec.dump_to_octave(filename)
DumpVector ==
  /\ aborted = ""
  /\ \E filename \in Filenames, opens \in BOOLEAN :
       LET io == dump_to_octave(
                   [cout |-> cout, ofile |-> ofile, terminal |-> terminal],
                   vector_tokens(vec, 1), filename, opens)
       IN /\ cout' = io.cout
          /\ ofile' = io.ofile
          /\ terminal' = io.terminal
  /\ UNCHANGED <<mat, vec, source, aborted>>

\* mat.dump_to_octave(filename)
DumpMatrix ==
  /\ aborted = ""
  /\ \E filename \in Filenames, opens \in BOOLEAN :
       LET io == dump_to_octave(
                   [cout |-> cout, ofile |-> ofile, terminal |-> terminal],
                   matrix_tokens(mat, 0, 0), filename, opens)
       IN /\ cout' = io.cout
          /\ ofile' = io.ofile
          /\ terminal' = io.terminal
  /\ UNCHANGED <<mat, vec, source, aborted>>

\* ------------------------------------------------------------------------
\* properties of the tensors
\* ------------------------------------------------------------------------
\* the last dump_to_octave could not open its file
OpenFailed == ofile.filename # "" /\ ~ofile.is_open

\* C13: when dump_to_octave, of a vector or of a matrix, fails to open the
\* output file, a warning is emitted and execution continues with the
\* tensor unchanged and the stream buffer of std::cout restored.
C13_WarnAndContinue ==
  /\ [](OpenFailed => (terminal # "" /\ aborted = "" /\ cout = STDOUT))
  /\ [][(ofile' # ofile /\ ~ofile'.is_open) =>
          (mat' = mat /\ vec' = vec /\ cout' = STDOUT)]_vars

\* C14: after the assignment of a std::vector v to an nrows x ncols
\* matrix, element (i, j) equals v[j * nrows + i] for every i and j.
C14_ColumnMajorSource ==
  (source # <<>> /\ aborted = "") =>
    \A i \in 0..(mat.nrows_ - 1), j \in 0..(mat.ncols_ - 1) :
      matrix_at(mat, i, j) = source[j * mat.nrows_ + i + 1]

\* ------------------------------------------------------------------------
\* quadrature: legendre
\* ------------------------------------------------------------------------
\* a value of type P: (n / d) * sqrt(r), with d > 0 and r > 0; the model
\* computes without rounding
Number(n, d, r) == [n |-> n, d |-> d, r |-> r]
whole(n) == Number(n, 1, 1)
plus(x, y) == Number(x.n * y.d + y.n * x.d, x.d * y.d, 1)
minus(x, y) == Number(x.n * y.d - y.n * x.d, x.d * y.d, 1)
times(x, y) == Number(x.n * y.n, x.d * y.d, x.r * y.r)
\* 1 / sqrt(qn / qd), the dscale of a norm_2 = qn / qd
inverse_root(qn, qd) == Number(1, qn, qn * qd)
less(x, y) == x.n * y.d < y.n * x.d

\* std::max
max(x, y) == IF x < y THEN y ELSE x

\* the two assertions at the head of legendre
legendre_check(domain, degree) ==
  IF ~(degree >= 0) THEN "degree >= 0"
  ELSE IF ~(Len(domain) > 0) THEN "domain.size() > 0"
  ELSE OK

\* the columns before normalizing, at the domain point x: column 0 of the
\* values is 1, column 1 is x and its derivative 1 (from degree 2 on), and
\* column n + 1 follows from columns n and n - 1 (from degree 3 on)
RECURSIVE legendre_col(_, _)
legendre_col(x, column_index) ==
  IF column_index = 0 THEN whole(1)
  ELSE IF column_index = 1 THEN x
  ELSE LET n == column_index - 1
           factor == Number(1, n + 1, 1)
           product == times(x, legendre_col(x, n))
       IN times(minus(times(product, whole(2 * n + 1)),
                      times(legendre_col(x, n - 1), whole(n))),
                factor)

RECURSIVE legendre_prime_col(_, _)
legendre_prime_col(x, column_index) ==
  IF column_index = 0 THEN whole(0)
  ELSE IF column_index = 1 THEN whole(1)
  ELSE LET n == column_index - 1
           factor == Number(1, n + 1, 1)
           product == times(x, legendre_prime_col(x, n))
       IN times(minus(times(plus(product, legendre_col(x, n)),
                            whole(2 * n + 1)),
                      times(legendre_prime_col(x, n - 1), whole(n))),
                factor)

\* "normalizing": column i times dscale = 1 / sqrt(2 / (2 i + 1))
normalize(m, degree) ==
  [row \in DOMAIN m |->
     [c \in DOMAIN m[row] |->
        IF c - 1 < degree
          THEN times(m[row][c], inverse_root(2, 2 * (c - 1) + 1))
          ELSE m[row][c]]]

\* find of matlab_utilities: the indices, from 0, of the elements of the
\* vector that satisfy the predicate, given as the set of the values it
\* holds for
find(v, satisfying) == {i \in 0..(Len(v) - 1) : v[i + 1] \in satisfying}

\* the predicate legendre hands to find
out_of_range(elem) == less(elem, whole(-1)) \/ less(whole(1), elem)

\* update_row(i, zeros) for every i of the rows found
zero_rows(m, rows) ==
  [row \in DOMAIN m |->
     IF (row - 1) \in rows THEN [c \in DOMAIN m[row] |-> whole(0)]
     ELSE m[row]]

\* "scaling to use normalization": every element times sqrt(2)
scale(m, degree) ==
  IF degree > 0
    THEN [row \in DOMAIN m |->
            [c \in DOMAIN m[row] |-> times(m[row][c], Number(1, 1, 2))]]
    ELSE m

\* the two matrices before the rows out of range are zeroed
legendre_normalized(domain, degree) ==
  LET ncols == max(1, degree)
      values == [row \in 1..Len(domain) |->
                   [c \in 1..ncols |-> legendre_col(domain[row], c - 1)]]
      primes == [row \in 1..Len(domain) |->
                   [c \in 1..ncols |->
                      legendre_prime_col(domain[row], c - 1)]]
  IN <<normalize(values, degree), normalize(primes, degree)>>

\* faulty variant: only the points above 1 are taken as out of range
legendre_above_only(domain, degree) ==
  LET above == {domain[x] : x \in {y \in DOMAIN domain :
                                       less(whole(1), domain[y])}}
      normalized == legendre_normalized(domain, degree)
  IN <<scale(zero_rows(normalized[1], find(domain, above)), degree),
       scale(zero_rows(normalized[2], find(domain, above)), degree)>>

\* legendre: <<values, derivatives>>
legendre(domain, degree) ==
  LET normalized == legendre_normalized(domain, degree)
      rows == find(domain, {domain[x] : x \in {y \in DOMAIN domain :
                                              out_of_range(domain[y])}})
  IN <<scale(zero_rows(normalized[1], rows), degree),
       scale(zero_rows(normalized[2], rows), degree)>>

\* the domain points of the calls, in halves
InputPoints == {Number(k, 2, 1) : k \in (-MaxPoint)..MaxPoint}
InputDomains == UNION {[1..len -> InputPoints] : len \in 0..MaxDomain}
InputDegrees == (-1)..MaxLegendreDegree

NO_CALL == [domain |-> <<>>, degree |-> 0, result |-> <<>>]

QuadInit == quad = NO_CALL /\ aborted = ""

\* one call of legendre
Legendre ==
  /\ quad = NO_CALL
  /\ aborted = ""
  /\ \E domain \in InputDomains, degree \in InputDegrees :
       LET chk == legendre_check(domain, degree)
       IN IF chk = OK
            THEN /\ quad' = [domain |-> domain, degree |-> degree,
                             result |-> legendre(domain, degree)]
                 /\ UNCHANGED aborted
            ELSE /\ quad' = [domain |-> domain, degree |-> degree,
                             result |-> <<>>]
                 /\ aborted' = chk

\* ------------------------------------------------------------------------
\* properties of legendre
\* ------------------------------------------------------------------------
LegendreReturned == quad.result # <<>>

\* C15: for every degree >= 0 and every domain vector, each row of both
\* matrices legendre returns that belongs to a domain point x with x < -1
\* or x > 1 is all zeros, across all max(1, degree) columns.
C15_ZeroOutsideInterval ==
  LegendreReturned =>
    \A which \in 1..2, row \in 1..Len(quad.domain) :
      /\ Len(quad.result[which]) = Len(quad.domain)
      /\ DOMAIN quad.result[which][row] = 1..max(1, quad.degree)
      /\ (quad.domain[row].n < -(quad.domain[row].d)
            \/ quad.domain[row].n > quad.domain[row].d) =>
           \A c \in 1..max(1, quad.degree) :
             quad.result[which][row][c].n = 0

\* a call of degree 3 on a point below -1, a point above 1 and a point
\* inside the interval, whose row of values is not zero
C15_Witness ==
  /\ LegendreReturned
  /\ quad.degree = 3
  /\ \E below, above, inside \in 1..Len(quad.domain) :
       /\ less(quad.domain[below], whole(-1))
       /\ less(whole(1), quad.domain[above])
       /\ ~out_of_range(quad.domain[inside])
       /\ \A c \in 1..3 : quad.result[1][inside][c].n # 0
       /\ \A c \in 1..3 : quad.result[1][below][c].n = 0
       /\ \A c \in 1..3 : quad.result[2][above][c].n = 0

\* ------------------------------------------------------------------------
\* comparison of tensors
\* ------------------------------------------------------------------------
\* the tolerance for answer comparisons, 2 * epsilon; the elements of the
\* tensors compared are counted in tolerances
TOL == 1

std_abs(x) == IF x < 0 THEN -x ELSE x

\* the test of one pair of elements in operator==; when it is TRUE the
\* operator returns false.  A floating-point pair is tested for its
\* difference only when both elements are above the tolerance in magnitude.
elements_differ(floating, x, y) ==
  IF floating
    THEN IF std_abs(x) > TOL /\ std_abs(y) > TOL
           THEN std_abs(x - y) > TOL
           ELSE FALSE
    ELSE x # y

\* fk::vector<P>::operator==
vector_equal(floating, same, x, y) ==
  IF same THEN TRUE
  ELSE IF Len(x) # Len(y) THEN FALSE
  ELSE \A i \in 0..(Len(x) - 1) :
         ~elements_differ(floating, At0(x, i), At0(y, i))

\* fk::matrix<P>::operator==
matrix_equal(floating, same, x, y) ==
  IF same THEN TRUE
  ELSE IF x.nrows_ # y.nrows_ \/ x.ncols_ # y.ncols_ THEN FALSE
  ELSE \A j \in 0..(x.ncols_ - 1), i \in 0..(x.nrows_ - 1) :
         ~elements_differ(floating, matrix_at(x, i, j), matrix_at(y, i, j))

CmpValues == (-MaxCmpValue)..MaxCmpValue

InputCmpVectors == UNION {[1..n -> CmpValues] : n \in 0..MaxCmpLen}

CmpShapes ==
  {shape \in (1..MaxCmpLen) \X (1..MaxCmpLen) :
     shape[1] * shape[2] <= MaxCmpLen}

InputCmpMatrices ==
  UNION {{[nrows_ |-> shape[1], ncols_ |-> shape[2], data_ |-> d] :
            d \in [1..(shape[1] * shape[2]) -> CmpValues]} :
           shape \in CmpShapes}

\* a comparison about to be made: same tells that the right operand is the
\* left operand itself
Comparison(kind, floating, same, x, y) ==
  [kind |-> kind, floating |-> floating, same |-> same, x |-> x, y |-> y,
   returned |-> FALSE, result |-> FALSE]

CompareInit ==
  /\ \E floating \in BOOLEAN :
       \/ \E x, y \in InputCmpVectors, same \in BOOLEAN :
            /\ same => x = y
            /\ cmp = Comparison("vector", floating, same, x, y)
       \/ \E x, y \in InputCmpMatrices, same \in BOOLEAN :
            /\ same => x = y
            /\ cmp = Comparison("matrix", floating, same, x, y)
  /\ aborted = ""

\* x == y for two fk::vector
VectorCompare ==
  /\ cmp.kind = "vector"
  /\ ~cmp.returned
  /\ cmp' = [cmp EXCEPT !.returned = TRUE,
                        !.result = vector_equal(cmp.floating, cmp.same,
                                                cmp.x, cmp.y)]

\* x == y for two fk::matrix
MatrixCompare ==
  /\ cmp.kind = "matrix"
  /\ ~cmp.returned
  /\ cmp' = [cmp EXCEPT !.returned = TRUE,
                        !.result = matrix_equal(cmp.floating, cmp.same,
                                                cmp.x, cmp.y)]

\* the elements of a compared tensor in storage order
CmpElements(t) == IF cmp.kind = "vector" THEN t ELSE t.data_

SameShape ==
  IF cmp.kind = "vector" THEN Len(cmp.x) = Len(cmp.y)
  ELSE cmp.x.nrows_ = cmp.y.nrows_ /\ cmp.x.ncols_ = cmp.y.ncols_

\* the positions at which the two tensors are further apart than TOL
FarApart ==
  {e \in DOMAIN CmpElements(cmp.x) \cap DOMAIN CmpElements(cmp.y) :
     std_abs(CmpElements(cmp.x)[e] - CmpElements(cmp.y)[e]) > TOL}

\* C30 as stated: operator== on two floating-point tensors returns true
\* exactly when they have the same size (shape) and every pair of
\* corresponding elements differs by at most TOL; two tensors with a pair
\* of corresponding elements further apart than TOL never compare equal.
C30_EqualWithinTolerance ==
  (cmp.returned /\ cmp.floating) =>
    /\ cmp.result <=> (SameShape /\ FarApart = {})
    /\ (SameShape /\ FarApart # {}) => ~cmp.result

\* ------------------------------------------------------------------------
\* specifications
\* ------------------------------------------------------------------------
BatchIdle == ops = <<>> /\ last = <<>> /\ dispatched = <<>>
TableIdle == grid = <<>> /\ table = <<>> /\ fwd = <<>> /\ lookup = <<>>
ChunkIdle ==
  /\ connect = <<>> /\ budget = <<>> /\ chunks = <<>> /\ cur = <<>>
  /\ cursor = <<>>
KronIdle ==
  /\ pde = <<>> /\ chunk = <<>> /\ workspace = <<>> /\ batches = <<>>
  /\ pc = "" /\ kcalls = <<>>
PdeIdle == choice = <<>> /\ made = <<>> /\ out = <<>> /\ status = <<>>
TensorIdle ==
  /\ mat = <<>> /\ vec = <<>> /\ source = <<>> /\ cout = <<>>
  /\ ofile = <<>> /\ terminal = <<>>
QuadIdle == quad = <<>>
CompareIdle == cmp = <<>>

\* the batch container
Init ==
  /\ BatchInit /\ TableIdle /\ ChunkIdle /\ KronIdle /\ PdeIdle
  /\ TensorIdle /\ QuadIdle /\ CompareIdle
OutsideBatch ==
  <<tableVars, chunkVars, kronVars, pdeVars, tensorVars, quadVars,
   compareVars>>
Next ==
  \/ /\ \E n \in Names, a \in InputViews, position \in InputPositions :
          AssignEntry(n, a, position)
     /\ UNCHANGED OutsideBatch
  \/ /\ \E n \in Names, position \in InputPositions : ClearEntry(n, position)
     /\ UNCHANGED OutsideBatch
  \/ /\ \E n \in Names : ClearAll(n)
     /\ UNCHANGED OutsideBatch
  \/ /\ \E n \in Names : IsFilled(n)
     /\ UNCHANGED OutsideBatch
  \/ BatchedGemm /\ UNCHANGED OutsideBatch
  \/ BatchedGemv /\ UNCHANGED OutsideBatch
Spec == Init /\ [][Next]_vars

\* the element table
InitTable ==
  /\ TableInit /\ BatchIdle /\ ChunkIdle /\ KronIdle /\ PdeIdle
  /\ TensorIdle /\ QuadIdle /\ CompareIdle /\ aborted = ""
OutsideTable ==
  <<batchVars, chunkVars, kronVars, pdeVars, tensorVars, quadVars,
   compareVars, aborted>>
NextTable ==
  \/ Inverse /\ UNCHANGED OutsideTable
  \/ Forward /\ UNCHANGED OutsideTable
SpecTable == InitTable /\ [][NextTable]_vars

\* the chunker
InitChunk ==
  /\ ChunkInit /\ BatchIdle /\ TableIdle /\ KronIdle /\ PdeIdle
  /\ TensorIdle /\ QuadIdle /\ CompareIdle /\ aborted = ""
OutsideChunk ==
  <<batchVars, tableVars, kronVars, pdeVars, tensorVars, quadVars,
   compareVars, aborted>>
NextChunk ==
  \/ PlaceCoupling /\ UNCHANGED OutsideChunk
  \/ FinishChunks /\ UNCHANGED OutsideChunk
SpecChunk == InitChunk /\ [][NextChunk]_vars

\* build_batches on one chunk
InitKron ==
  /\ KronInit /\ BatchIdle /\ ChunkIdle /\ PdeIdle
  /\ TensorIdle /\ QuadIdle /\ CompareIdle
OutsideKron == <<batchVars, chunkVars, pdeVars, tensorVars, quadVars,
   compareVars>>
NextKron ==
  \/ BuildBegin /\ UNCHANGED OutsideKron
  \/ KronTriple /\ UNCHANGED OutsideKron
  \/ BuildReturn /\ UNCHANGED OutsideKron
SpecKron == InitKron /\ [][NextKron]_vars

\* build_batches on one chunk, the iterations of the rows interleaved
NextParKron ==
  \/ BuildBegin /\ UNCHANGED OutsideKron
  \/ /\ \E i \in DOMAIN chunk : ParTriple(i)
     /\ UNCHANGED OutsideKron
  \/ BuildReturn /\ UNCHANGED OutsideKron
SpecParKron == InitKron /\ [][NextParKron]_vars

\* the PDE factory
InitPDE ==
  /\ PdeInit /\ BatchIdle /\ TableIdle /\ ChunkIdle /\ KronIdle
  /\ TensorIdle /\ QuadIdle /\ CompareIdle /\ aborted = ""
OutsidePDE ==
  <<batchVars, tableVars, chunkVars, kronVars, tensorVars, quadVars,
   compareVars, aborted>>
NextPDE ==
  \/ MakeNamedPDE /\ UNCHANGED OutsidePDE
  \/ MakeCastPDE /\ UNCHANGED OutsidePDE
SpecPDE == InitPDE /\ [][NextPDE]_vars

\* the tensors
InitTensor ==
  /\ TensorInit /\ BatchIdle /\ TableIdle /\ ChunkIdle /\ KronIdle
  /\ PdeIdle /\ QuadIdle /\ CompareIdle
OutsideTensor ==
  <<batchVars, tableVars, chunkVars, kronVars, pdeVars, quadVars,
   compareVars>>
NextTensor ==
  \/ MatrixAssign /\ UNCHANGED OutsideTensor
  \/ DumpVector /\ UNCHANGED OutsideTensor
  \/ DumpMatrix /\ UNCHANGED OutsideTensor
SpecTensor == InitTensor /\ [][NextTensor]_vars

\* legendre
InitQuad ==
  /\ QuadInit /\ BatchIdle /\ TableIdle /\ ChunkIdle /\ KronIdle
  /\ PdeIdle /\ TensorIdle /\ CompareIdle
OutsideQuad ==
  <<batchVars, tableVars, chunkVars, kronVars, pdeVars, tensorVars,
    compareVars>>
NextQuad == Legendre /\ UNCHANGED OutsideQuad
SpecQuad == InitQuad /\ [][NextQuad]_vars

\* operator== of the tensors
InitCompare ==
  /\ CompareInit /\ BatchIdle /\ TableIdle /\ ChunkIdle /\ KronIdle
  /\ PdeIdle /\ TensorIdle /\ QuadIdle
OutsideCompare ==
  <<batchVars, tableVars, chunkVars, kronVars, pdeVars, tensorVars,
    quadVars, aborted>>
NextCompare ==
  \/ VectorCompare /\ UNCHANGED OutsideCompare
  \/ MatrixCompare /\ UNCHANGED OutsideCompare
SpecCompare == InitCompare /\ [][NextCompare]_vars

====
